---- MODULE Spec2Model ----
(***************************************************************************)
(* A model of the top-repo-analysis pipeline:                              *)
(*   - the Collector (src/src/github_scraper.py): get_top_repos,           *)
(*     get_user_data, scrape_github, scrape_repos, check_rate_limit,       *)
(*     get_top_users_and_orgs and main;                                    *)
(*   - the Cleaner (src/src/data_cleaning.py): clean_repo_data,            *)
(*     clean_user_data, the dispatch of clean_data and create_location_df; *)
(*   - the Reporter (src/src/data_visualization.py): get_data and the      *)
(*     chart groups of main.                                               *)
(* The specifications share the variables:                                 *)
(*   Spec          one call of scrape_github or of scrape_repos, statement *)
(*                 by statement, against a platform that answers requests; *)
(*   SpecClean     clean_data applied to one raw table;                    *)
(*   SpecTop       get_top_users_and_orgs applied to a pair of tables;     *)
(*   SpecLocation  create_location_df applied to a cleaned user table;     *)
(*   SpecTopics    the topics field of one repository, from the record to  *)
(*                 the Reporter's chart;                                   *)
(*   SpecChart     top_10_repos_chart and top_10_lang_stars_chart applied  *)
(*                 to one table;                                           *)
(*   SpecMain      the Collector's main, then clean_data, then the         *)
(*                 Reporter's ranking of owners;                           *)
(*   SpecReport    the Reporter's main: the chart groups in main's order. *)
(***************************************************************************)
EXTENDS Integers, Sequences, FiniteSets, TLC

VARIABLES
    pc,                 \* the position of the running function
    call,               \* which function this run calls
    num,                \* get_top_repos: the num argument
    results,            \* the platform: what the search delivers, in order
    owner_repos,        \* the platform: how many repositories each owner has
    usernames,          \* scrape_repos: the usernames argument, in iteration order
    top_repos,          \* get_top_repos: the list being collected
    top_repos_none,     \* get_top_repos returned None
    user_data,          \* get_user_data: the list being collected
    github_data,        \* scrape_github: the dictionary's values, one per query
    all_repos,          \* scrape_repos: the list being collected
    raised,             \* the owners for which the platform raised GithubException
    i,                  \* index of the running for loop (items consumed so far)
    j,                  \* scrape_repos: index of the inner loop over user.get_repos()
    ret,                \* where check_rate_limit returns to
    search_remaining,   \* check_rate_limit: the last value read of search.remaining
    core_remaining,     \* check_rate_limit: the last value read of core.remaining
    slept,              \* seconds slept by the last check_rate_limit, per tier
    prev_call,          \* the API interaction before the last one
    last_call,          \* the last API interaction (a completed check or a request)
    requests,           \* number of requests sent in this run, per kind
    kind,               \* clean_data: which file is being cleaned
    raw,                \* clean_data: the table read from the raw file
    cleaned,            \* clean_data: the table written to the cleaned file
    user_data_df,       \* get_top_users_and_orgs: the user table
    top_repos_df,       \* get_top_users_and_orgs: the repository table
    top_users,          \* get_top_users_and_orgs: first component of the result
    top_organizations,  \* get_top_users_and_orgs: second component of the result
    clean_df,           \* create_location_df: the cleaned user table passed in
    location_df,        \* create_location_df: the frame being built
    lookups,            \* the geocoding lookups issued so far, in order
    topics,             \* the topic list of one scraped repository
    cell,               \* the text of the topics cell of the file last written
    value,              \* the topics value of the table last read or cleaned
    chart_input,        \* the table passed to a chart function
    chart_data,         \* the data of the chart it builds
    heap,               \* the Reporter's data frames, by reference
    charts,             \* the chart data saved by each chart group
    queries,            \* main: the queries argument
    search,             \* the platform: the repositories each query finds
    files,              \* the raw files written by main
    clean_files,        \* the cleaned files written by clean_data
    report_top          \* the Reporter's result of get_top_users_and_orgs

vars == <<pc, call, num, results, owner_repos, usernames, top_repos, top_repos_none,
          user_data, github_data, all_repos, raised, i, j, ret, search_remaining,
          core_remaining, slept, prev_call, last_call, requests, kind, raw, cleaned,
          user_data_df, top_repos_df, top_users, top_organizations,
          clean_df, location_df, lookups, topics, cell, value, chart_input, chart_data,
          heap, charts, queries, search, files, clean_files, report_top>>

collectorVars == <<call, num, results, owner_repos, usernames, top_repos, top_repos_none,
                   user_data, github_data, all_repos, raised, i, j, ret,
                   search_remaining, core_remaining, slept, prev_call, last_call,
                   requests>>
cleanerVars == <<kind, raw, cleaned>>
topVars == <<user_data_df, top_repos_df, top_users, top_organizations>>
locationVars == <<clean_df, location_df, lookups>>
topicVars == <<topics, cell, value>>
chartVars == <<chart_input, chart_data>>
reportVars == <<heap, charts>>
mainVars == <<queries, search, files, clean_files, report_top>>
laterVars == <<locationVars, topicVars, chartVars, reportVars, mainVars>>

----------------------------------------------------------------------------
(* Bounds of the model *)

MaxOwners == 2          \* owners known to the platform: 1..MaxOwners
MaxOwnerRepos == 2      \* repositories an owner can have
MaxResults == 2         \* length of the list the search delivers
MaxNum == 2             \* largest num argument within the cap that is tried

(* Program constants *)

NumCap == 1000              \* get_top_repos: "if num > 1000"
Threshold == 3              \* check_rate_limit: "remaining <= 3"
SearchSleepSeconds == 60    \* check_rate_limit: time.sleep(60)
CoreSleepSeconds == 3600    \* check_rate_limit: time.sleep(3600)

----------------------------------------------------------------------------
(* Helpers *)

Min(a, b) == IF a < b THEN a ELSE b

Range(s) == {s[k] : k \in DOMAIN s}

IsPrefix(s, t) == Len(s) <= Len(t) /\ SubSeq(t, 1, Len(s)) = s

\* All sequences over S of length at most n.
SeqsUpTo(S, n) == UNION {[1..k -> S] : k \in 0..n}

\* All sequences over S without repetition (the iteration orders of its subsets).
DistinctSeqs(S) == {s \in SeqsUpTo(S, Cardinality(S)) :
                        \A a, b \in DOMAIN s : a # b => s[a] # s[b]}

\* The orders in which a set can be iterated.
SetOrders(S) == {s \in DistinctSeqs(S) : Len(s) = Cardinality(S)}

----------------------------------------------------------------------------
(* The platform *)

Owners == 1..MaxOwners

\* The id of the k-th repository of owner u (distinct repositories, distinct ids).
RepoId(u, k) == u * (MaxOwnerRepos + 1) + k

\* The repository object the platform delivers: the fields the records read.
PlatformRepo(u, k) == [id |-> RepoId(u, k), username |-> u]

AllPlatformRepos == {PlatformRepo(u, k) : u \in Owners, k \in 1..MaxOwnerRepos}

\* The values a read of <tier>.remaining can give: at, above and below the threshold.
QuotaValues == {0, Threshold, Threshold + 1}

----------------------------------------------------------------------------
(* Collector: records and pure parts *)

\* get_top_repos / scrape_repos: the dictionary built from a repository object.
RepoRecord(repo) == [id |-> repo.id, username |-> repo.username]

\* get_user_data: the dictionary built from g.get_user(username).
UserRecord(username) == [id |-> username, username |-> username]

\* A mutant of Slice: the slice is forgotten.
SliceAll(lst, n) == lst

\* get_top_repos: g.search_repositories(...)[:num], for num >= 0.
Slice(lst, n) == SubSeq(lst, 1, Min(n, Len(lst)))

\* A mutant of LowQuota: "<" for "<=".
LowQuotaStrict(remaining) == remaining < Threshold

\* check_rate_limit: the test that puts the script to sleep.
LowQuota(remaining) == remaining <= Threshold

NoRequests == [search_repositories |-> 0, get_topics |-> 0, get_user |-> 0,
               get_repos |-> 0, get_rate_limit |-> 0]

\* The requests that fetch data (a read of the rate limit is the check itself).
DataCalls == {"search_repositories", "get_topics", "get_user", "get_repos"}

\* What a data request does to the bookkeeping of API interactions.
Request(name) ==
    /\ requests' = [requests EXCEPT ![name] = @ + 1]
    /\ prev_call' = last_call
    /\ last_call' = name

NoApi == UNCHANGED <<requests, prev_call, last_call>>

----------------------------------------------------------------------------
(* Collector: check_rate_limit, statement by statement *)

\* The caller's "check_rate_limit(g)": control enters the function.
EnterCheck(back) ==
    /\ pc' = "crl_search"
    /\ ret' = back

\* "if g.get_rate_limit().search.remaining <= 3": one read of the rate limit.
CheckSearchTier ==
    /\ pc = "crl_search"
    /\ \E r \in QuotaValues :
        /\ search_remaining' = r
        /\ pc' = IF LowQuota(r) THEN "crl_sleep_search" ELSE "crl_core"
    /\ slept' = [search |-> 0, core |-> 0]
    /\ requests' = [requests EXCEPT !["get_rate_limit"] = @ + 1]
    /\ UNCHANGED <<call, num, results, owner_repos, usernames, top_repos,
                   top_repos_none, user_data, github_data, all_repos, raised, i, j,
                   ret, core_remaining, prev_call, last_call>>
    /\ UNCHANGED cleanerVars /\ UNCHANGED topVars
    /\ UNCHANGED laterVars

\* "time.sleep(60)"
SleepSearch ==
    /\ pc = "crl_sleep_search"
    /\ slept' = [slept EXCEPT !.search = SearchSleepSeconds]
    /\ pc' = "crl_core"
    /\ UNCHANGED <<call, num, results, owner_repos, usernames, top_repos,
                   top_repos_none, user_data, github_data, all_repos, raised, i, j,
                   ret, search_remaining, core_remaining, prev_call, last_call,
                   requests>>
    /\ UNCHANGED cleanerVars /\ UNCHANGED topVars
    /\ UNCHANGED laterVars

\* The function returns to its caller: the check of both tiers is complete.
CheckDone ==
    /\ pc' = ret
    /\ prev_call' = last_call
    /\ last_call' = "check_rate_limit"

\* "if g.get_rate_limit().core.remaining <= 3": a second read of the rate limit.
CheckCoreTier ==
    /\ pc = "crl_core"
    /\ requests' = [requests EXCEPT !["get_rate_limit"] = @ + 1]
    /\ \E r \in QuotaValues :
        /\ core_remaining' = r
        /\ IF LowQuota(r)
             THEN pc' = "crl_sleep_core" /\ UNCHANGED <<prev_call, last_call>>
             ELSE CheckDone
    /\ UNCHANGED <<call, num, results, owner_repos, usernames, top_repos,
                   top_repos_none, user_data, github_data, all_repos, raised, i, j,
                   ret, search_remaining, slept>>
    /\ UNCHANGED cleanerVars /\ UNCHANGED topVars
    /\ UNCHANGED laterVars

\* "time.sleep(3600)", then the function returns.
SleepCore ==
    /\ pc = "crl_sleep_core"
    /\ slept' = [slept EXCEPT !.core = CoreSleepSeconds]
    /\ CheckDone
    /\ UNCHANGED <<call, num, results, owner_repos, usernames, top_repos,
                   top_repos_none, user_data, github_data, all_repos, raised, i, j,
                   ret, search_remaining, core_remaining, requests>>
    /\ UNCHANGED cleanerVars /\ UNCHANGED topVars
    /\ UNCHANGED laterVars

----------------------------------------------------------------------------
(* Collector: scrape_github with one query, get_top_repos, get_user_data *)

\* scrape_github: "top_repos = get_top_repos(g, query, ...)", and get_top_repos'
\* "if num > 1000: print(...); return", else "top_repos = []".
GetTopReposGuard ==
    /\ pc = "gtr_start"
    /\ IF num > NumCap
         THEN /\ top_repos_none' = TRUE
              /\ pc' = "gud_start"
         ELSE /\ top_repos_none' = FALSE
              /\ pc' = "gtr_search"
    /\ top_repos' = <<>>
    /\ NoApi
    /\ UNCHANGED <<call, num, results, owner_repos, usernames, user_data,
                   github_data, all_repos, raised, i, j, ret, search_remaining,
                   core_remaining, slept>>
    /\ UNCHANGED cleanerVars /\ UNCHANGED topVars
    /\ UNCHANGED laterVars

\* "repos = g.search_repositories(query, sort=sort, order=order)[:num]": the one
\* search request ("gets the top n repos, 1 API call").
SearchRepositories ==
    /\ pc = "gtr_search"
    /\ Request("search_repositories")
    /\ i' = 0
    /\ pc' = "gtr_loop"
    /\ UNCHANGED <<call, num, results, owner_repos, usernames, top_repos,
                   top_repos_none, user_data, github_data, all_repos, raised, j, ret,
                   search_remaining, core_remaining, slept>>
    /\ UNCHANGED cleanerVars /\ UNCHANGED topVars
    /\ UNCHANGED laterVars

\* "for repo in tqdm(repos, ...): check_rate_limit(g)", or the loop ends and
\* "return top_repos" hands the list to scrape_github, which calls get_user_data.
GetTopReposLoop ==
    /\ pc = "gtr_loop"
    /\ IF i < Len(Slice(results, num))
         THEN EnterCheck("gtr_append")
         ELSE pc' = "gud_start" /\ UNCHANGED ret
    /\ NoApi
    /\ UNCHANGED <<call, num, results, owner_repos, usernames, top_repos,
                   top_repos_none, user_data, github_data, all_repos, raised, i, j,
                   search_remaining, core_remaining, slept>>
    /\ UNCHANGED cleanerVars /\ UNCHANGED topVars
    /\ UNCHANGED laterVars

\* "top_repos.append({...})": the record is built from the search result; its
\* topics are one more request, repo.get_topics().
GetTopReposAppend ==
    /\ pc = "gtr_append"
    /\ Request("get_topics")
    /\ top_repos' = Append(top_repos, RepoRecord(Slice(results, num)[i + 1]))
    /\ i' = i + 1
    /\ pc' = "gtr_loop"
    /\ UNCHANGED <<call, num, results, owner_repos, usernames, top_repos_none,
                   user_data, github_data, all_repos, raised, j, ret,
                   search_remaining, core_remaining, slept>>
    /\ UNCHANGED cleanerVars /\ UNCHANGED topVars
    /\ UNCHANGED laterVars

\* get_user_data(g, top_repos): "user_data = []", then the for statement takes
\* its iterable; tqdm(None) is not iterable and the TypeError ends the run.
GetUserDataStart ==
    /\ pc = "gud_start"
    /\ user_data' = <<>>
    /\ i' = 0
    /\ pc' = IF top_repos_none THEN "crashed" ELSE "gud_loop"
    /\ NoApi
    /\ UNCHANGED <<call, num, results, owner_repos, usernames, top_repos,
                   top_repos_none, github_data, all_repos, raised, j, ret,
                   search_remaining, core_remaining, slept>>
    /\ UNCHANGED cleanerVars /\ UNCHANGED topVars
    /\ UNCHANGED laterVars

\* "for repo in tqdm(repos, ...): check_rate_limit(g)", or the loop ends and
\* "return user_data".
GetUserDataLoop ==
    /\ pc = "gud_loop"
    /\ IF i < Len(top_repos)
         THEN EnterCheck("gud_get_user")
         ELSE pc' = "sg_store" /\ UNCHANGED ret
    /\ NoApi
    /\ UNCHANGED <<call, num, results, owner_repos, usernames, top_repos,
                   top_repos_none, user_data, github_data, all_repos, raised, i, j,
                   search_remaining, core_remaining, slept>>
    /\ UNCHANGED cleanerVars /\ UNCHANGED topVars
    /\ UNCHANGED laterVars

\* A mutant of GetUser: an owner whose profile is already in user_data is skipped.
GetUserOncePerOwner ==
    /\ pc = "gud_get_user"
    /\ IF \E k \in DOMAIN user_data : user_data[k].username = top_repos[i + 1].username
         THEN NoApi /\ UNCHANGED user_data
         ELSE /\ Request("get_user")
              /\ user_data' = Append(user_data, UserRecord(top_repos[i + 1].username))
    /\ i' = i + 1
    /\ pc' = "gud_loop"
    /\ UNCHANGED <<call, num, results, owner_repos, usernames, top_repos,
                   top_repos_none, github_data, all_repos, raised, j, ret,
                   search_remaining, core_remaining, slept>>
    /\ UNCHANGED cleanerVars /\ UNCHANGED topVars
    /\ UNCHANGED laterVars

\* "user = g.get_user(repo["username"])" (1 API call) and "user_data.append({...})".
GetUser ==
    /\ pc = "gud_get_user"
    /\ Request("get_user")
    /\ user_data' = Append(user_data, UserRecord(top_repos[i + 1].username))
    /\ i' = i + 1
    /\ pc' = "gud_loop"
    /\ UNCHANGED <<call, num, results, owner_repos, usernames, top_repos,
                   top_repos_none, github_data, all_repos, raised, j, ret,
                   search_remaining, core_remaining, slept>>
    /\ UNCHANGED cleanerVars /\ UNCHANGED topVars
    /\ UNCHANGED laterVars

\* scrape_github: "github_data[query] = (top_repos, user_data)", "return github_data".
StoreGithubData ==
    /\ pc = "sg_store"
    /\ github_data' = Append(github_data, [top_repos |-> top_repos,
                                           user_data |-> user_data])
    /\ pc' = "done"
    /\ NoApi
    /\ UNCHANGED <<call, num, results, owner_repos, usernames, top_repos,
                   top_repos_none, user_data, all_repos, raised, i, j, ret,
                   search_remaining, core_remaining, slept>>
    /\ UNCHANGED cleanerVars /\ UNCHANGED topVars
    /\ UNCHANGED laterVars

----------------------------------------------------------------------------
(* Collector: scrape_repos *)

\* The owner the outer loop is at.
CurrentOwner == usernames[i + 1]

\* "except GithubException: continue": the outer loop goes to the next username;
\* what was appended to all_repos stays.
CatchGithubException ==
    /\ raised' = raised \cup {CurrentOwner}
    /\ i' = i + 1
    /\ pc' = "sr_loop"

\* "for username in tqdm(usernames, ...): check_rate_limit(g)", or the loop ends
\* and "return all_repos".
ScrapeReposLoop ==
    /\ pc = "sr_loop"
    /\ IF i < Len(usernames)
         THEN EnterCheck("sr_get_user")
         ELSE pc' = "done" /\ UNCHANGED ret
    /\ NoApi
    /\ UNCHANGED <<call, num, results, owner_repos, usernames, top_repos,
                   top_repos_none, user_data, github_data, all_repos, raised, i, j,
                   search_remaining, core_remaining, slept>>
    /\ UNCHANGED cleanerVars /\ UNCHANGED topVars
    /\ UNCHANGED laterVars

\* "user = g.get_user(username)" (1 API call): the platform answers or raises.
ScrapeReposGetUser ==
    /\ pc = "sr_get_user"
    /\ Request("get_user")
    /\ \/ pc' = "sr_get_repos" /\ UNCHANGED <<raised, i>>
       \/ CatchGithubException
    /\ UNCHANGED <<call, num, results, owner_repos, usernames, top_repos,
                   top_repos_none, user_data, github_data, all_repos, j, ret,
                   search_remaining, core_remaining, slept>>
    /\ UNCHANGED cleanerVars /\ UNCHANGED topVars
    /\ UNCHANGED laterVars

\* "for repo in user.get_repos()": the listing request for the owner's
\* repositories (all of them on the first page): the platform answers or raises.
ScrapeReposGetRepos ==
    /\ pc = "sr_get_repos"
    /\ Request("get_repos")
    /\ \/ pc' = "sr_repo_loop" /\ j' = 0 /\ UNCHANGED <<raised, i>>
       \/ CatchGithubException /\ UNCHANGED j
    /\ UNCHANGED <<call, num, results, owner_repos, usernames, top_repos,
                   top_repos_none, user_data, github_data, all_repos, ret,
                   search_remaining, core_remaining, slept>>
    /\ UNCHANGED cleanerVars /\ UNCHANGED topVars
    /\ UNCHANGED laterVars

\* "all_repos.append({... "topics": repo.get_topics()})" for the next repository
\* of the listing: the topics request is answered, and the record appended, or it
\* raises, and no record is built for this repository.
ScrapeReposAppend ==
    /\ pc = "sr_repo_loop"
    /\ j < owner_repos[CurrentOwner]
    /\ Request("get_topics")
    /\ \/ /\ all_repos' = Append(all_repos, RepoRecord(PlatformRepo(CurrentOwner, j + 1)))
          /\ j' = j + 1
          /\ UNCHANGED <<pc, raised, i>>
       \/ CatchGithubException /\ UNCHANGED <<all_repos, j>>
    /\ UNCHANGED <<call, num, results, owner_repos, usernames, top_repos,
                   top_repos_none, user_data, github_data, ret,
                   search_remaining, core_remaining, slept>>
    /\ UNCHANGED cleanerVars /\ UNCHANGED topVars
    /\ UNCHANGED laterVars

\* The listing is exhausted: the outer loop goes to the next username.
ScrapeReposOwnerDone ==
    /\ pc = "sr_repo_loop"
    /\ j = owner_repos[CurrentOwner]
    /\ i' = i + 1
    /\ pc' = "sr_loop"
    /\ NoApi
    /\ UNCHANGED <<call, num, results, owner_repos, usernames, top_repos,
                   top_repos_none, user_data, github_data, all_repos, raised, j, ret,
                   search_remaining, core_remaining, slept>>
    /\ UNCHANGED cleanerVars /\ UNCHANGED topVars
    /\ UNCHANGED laterVars

----------------------------------------------------------------------------
(* Collector: the specification *)

\* The values of the variables of the other specifications while this one runs.
CleanerIdle == kind = "none" /\ raw = <<>> /\ cleaned = <<>>
TopIdle == /\ user_data_df = <<>> /\ top_repos_df = <<>>
           /\ top_users = {} /\ top_organizations = {}
LocationIdle == clean_df = <<>> /\ location_df = <<>> /\ lookups = <<>>
TopicIdle == topics = <<>> /\ cell = <<>> /\ value = <<>>
ChartIdle == chart_input = <<>> /\ chart_data = <<>>
ReportIdle == heap = <<>> /\ charts = <<>>
MainIdle == /\ queries = <<>> /\ search = <<>> /\ files = <<>>
            /\ clean_files = <<>> /\ report_top = <<>>
LaterIdle == LocationIdle /\ TopicIdle /\ ChartIdle /\ ReportIdle /\ MainIdle
CollectorIdle ==
    /\ call = "none" /\ num = 0 /\ results = <<>>
    /\ owner_repos = [u \in Owners |-> 0] /\ usernames = <<>>
    /\ top_repos = <<>> /\ top_repos_none = FALSE /\ user_data = <<>>
    /\ github_data = <<>> /\ all_repos = <<>> /\ raised = {}
    /\ i = 0 /\ j = 0 /\ ret = "none"
    /\ search_remaining = Threshold + 1 /\ core_remaining = Threshold + 1
    /\ slept = [search |-> 0, core |-> 0]
    /\ prev_call = "none" /\ last_call = "none" /\ requests = NoRequests

\* The state after "g = Github(token)" of scrape_github (github_data = dict()) or
\* of scrape_repos (all_repos = []), for each input and each platform.
Init ==
    /\ \/ /\ call = "scrape_github"
          /\ pc = "gtr_start"
          /\ num \in (0..MaxNum) \cup {NumCap + 1}
          /\ results \in SeqsUpTo(AllPlatformRepos, MaxResults)
          /\ owner_repos = [u \in Owners |-> 0]
          /\ usernames = <<>>
       \/ /\ call = "scrape_repos"
          /\ pc = "sr_loop"
          /\ num = 0
          /\ results = <<>>
          /\ owner_repos \in [Owners -> 0..MaxOwnerRepos]
          /\ usernames \in DistinctSeqs(Owners)
    /\ top_repos = <<>> /\ top_repos_none = FALSE /\ user_data = <<>>
    /\ github_data = <<>> /\ all_repos = <<>> /\ raised = {}
    /\ i = 0 /\ j = 0 /\ ret = "none"
    /\ search_remaining = Threshold + 1 /\ core_remaining = Threshold + 1
    /\ slept = [search |-> 0, core |-> 0]
    /\ prev_call = "none" /\ last_call = "none" /\ requests = NoRequests
    /\ CleanerIdle /\ TopIdle /\ LaterIdle

Next ==
    \/ CheckSearchTier \/ SleepSearch \/ CheckCoreTier \/ SleepCore
    \/ GetTopReposGuard \/ SearchRepositories \/ GetTopReposLoop \/ GetTopReposAppend
    \/ GetUserDataStart \/ GetUserDataLoop \/ GetUser \/ StoreGithubData
    \/ ScrapeReposLoop \/ ScrapeReposGetUser \/ ScrapeReposGetRepos
    \/ ScrapeReposAppend \/ ScrapeReposOwnerDone

Spec == Init /\ [][Next]_vars

----------------------------------------------------------------------------
(* Collector: properties *)

\* A step that sends a request fetching data.
DataRequestStep == \E name \in DataCalls : requests'[name] # requests[name]

\* A step that is one of check_rate_limit's sleeps.
SleepStep == pc \in {"crl_sleep_search", "crl_sleep_core"} /\ slept' # slept

\* The records of owner u in a list of repository records, in order.
RecordsOf(lst, u) == SelectSeq(lst, LAMBDA r : r.username = u)

\* Every repository record of owner u, in the order of the listing.
AllRecordsOf(u) == [k \in 1..owner_repos[u] |-> RepoRecord(PlatformRepo(u, k))]

\* C3: every request that fetches data (search, topic list, profile, repository
\* listing) is immediately preceded by a completed check of both tiers: the API
\* interaction before it is check_rate_limit, not another request and not nothing.
C3_EveryRequestPrecededByCheck ==
    last_call \in DataCalls => prev_call = "check_rate_limit"

\* C4: a request that fetches data is sent only when each tier that the last
\* check read at 3 or less has been slept for (60 s for search, 3600 s for core);
\* a sleep changes neither the loop index nor the lists nor the place the check
\* returns to; and every step leaves the records collected so far as a prefix of
\* the list, so those collected before a sleep are a prefix of the list returned.
C4_SleepThenResume ==
    [][ /\ DataRequestStep =>
             /\ (search_remaining <= Threshold => slept.search = SearchSleepSeconds)
             /\ (core_remaining <= Threshold => slept.core = CoreSleepSeconds)
        /\ SleepStep =>
             /\ UNCHANGED <<i, j, ret, top_repos, user_data, all_repos>>
             /\ pc' \in {"crl_core", ret}
        /\ IsPrefix(top_repos, top_repos')
        /\ IsPrefix(user_data, user_data')
        /\ IsPrefix(all_repos, all_repos')
      ]_vars

\* C4's case: get_top_repos has one record, the check of its second iteration
\* slept for both tiers and the iteration is about to send its request.
C4_Witness ==
    /\ pc = "gtr_append" /\ i = 1 /\ Len(top_repos) = 1
    /\ search_remaining <= Threshold /\ slept.search = SearchSleepSeconds
    /\ core_remaining <= Threshold /\ slept.core = CoreSleepSeconds

\* C5: when get_top_repos has returned, it returned None without any request if
\* num > 1000, and otherwise the first min(num, delivered) search results in the
\* order delivered, at most num and at most 1000 of them; and when the run of
\* scrape_github has ended with num > 1000, no request was sent and github_data
\* holds no repository record.
C5_AtMostNumRecords ==
    /\ pc = "gud_start" =>
         IF num > NumCap
           THEN top_repos_none /\ top_repos = <<>> /\ requests = NoRequests
           ELSE /\ ~top_repos_none
                /\ Len(top_repos) <= num /\ Len(top_repos) <= NumCap
                /\ Len(top_repos) = Min(num, Len(results))
                /\ \A k \in DOMAIN top_repos :
                     /\ top_repos[k].id = results[k].id
                     /\ top_repos[k].username = results[k].username
    /\ (call = "scrape_github" /\ pc \in {"done", "crashed"}) =>
         /\ \A q \in DOMAIN github_data :
              Len(github_data[q].top_repos) <= Min(num, NumCap)
         /\ num > NumCap => (requests = NoRequests /\ github_data = <<>>
                             /\ top_repos = <<>>)

\* C5's case: num is over the cap and the run has ended.
C5_Witness ==
    /\ call = "scrape_github" /\ num > NumCap /\ pc = "crashed"
    /\ Len(results) > 0

\* C6 as claimed: when get_user_data returns, the number of profile requests and
\* the number of profile records both equal the number of distinct owners of the
\* input repositories.
C6_OneProfilePerDistinctOwner ==
    pc = "sg_store" =>
        /\ requests.get_user = Cardinality({top_repos[k].username : k \in DOMAIN top_repos})
        /\ Len(user_data) = Cardinality({top_repos[k].username : k \in DOMAIN top_repos})

\* C6 amended: when get_user_data returns, the number of profile requests and the
\* number of profile records both equal the number of input repository records,
\* and the k-th profile record is that of the owner of the k-th repository.
C6_OneProfilePerRepository ==
    pc = "sg_store" =>
        /\ requests.get_user = Len(top_repos)
        /\ Len(user_data) = Len(top_repos)
        /\ \A k \in DOMAIN user_data : user_data[k].username = top_repos[k].username

\* C6's case: one owner owns two different input repositories.
C6_Witness ==
    /\ pc = "sg_store" /\ Len(top_repos) = 2
    /\ top_repos[1].username = top_repos[2].username
    /\ top_repos[1].id # top_repos[2].id
    /\ Len(user_data) = 2

\* C7: when scrape_repos returns it has gone through every username, and its
\* result holds every repository record of each owner that raised no exception
\* and no record of an owner that raised one.
C7_RaisingOwnersSkipped ==
    (call = "scrape_repos" /\ pc = "done") =>
        /\ i = Len(usernames)
        /\ \A u \in Range(usernames) :
             RecordsOf(all_repos, u) = IF u \in raised THEN <<>> ELSE AllRecordsOf(u)

----------------------------------------------------------------------------
(* Cleaner: tables, text and the pandas operations used *)

MaxRows == 3            \* rows of a raw table
MaxId == 2              \* ids of a raw table: 1..MaxId

\* A text is a sequence of characters; NaN is the missing value.
NaN == <<"NaN">>

\* The descriptions and bios tried: missing, plain, with line breaks, and the
\* string "nan".
Texts == {NaN, <<"a">>, <<"a", "\r", "\n", "b">>, <<"n", "a", "n">>}

\* The rows at the indices S of df, in the order of df.
RECURSIVE TakeRows(_, _)
TakeRows(df, S) ==
    IF S = {} THEN <<>>
    ELSE LET k == CHOOSE m \in S : \A n \in S : m <= n
         IN  <<df[k]>> \o TakeRows(df, S \ {k})

\* DataFrame.astype("str") on a text column: the missing value becomes "nan".
astype_str(t) == IF t = NaN THEN <<"n", "a", "n">> ELSE t

\* DataFrame.replace("nan", np.nan): a cell that is exactly "nan" becomes missing.
replace_nan(t) == IF t = <<"n", "a", "n">> THEN NaN ELSE t

\* Series.str.replace(r"\r|\n", "", regex=True): a missing value stays missing.
str_replace_newlines(t) ==
    IF t = NaN THEN NaN ELSE SelectSeq(t, LAMBDA ch : ch \notin {"\r", "\n"})

\* DataFrame.drop_duplicates(subset="id", keep=keep): keep is "first", "last" or
\* FALSE (no row of a duplicated id is kept).
drop_duplicates(df, keep) ==
    TakeRows(df, {k \in DOMAIN df :
        CASE keep = "first" -> \A m \in 1..(k - 1) : df[m].id # df[k].id
          [] keep = "last"  -> \A m \in (k + 1)..Len(df) : df[m].id # df[k].id
          [] OTHER          -> \A m \in DOMAIN df : m # k => df[m].id # df[k].id})

\* The exception of "clean_df[column].str" on a column that holds no string.
AttributeError == [raises |-> "AttributeError"]

\* "clean_df[column].str" raises: astype("str") and replace("nan", np.nan) leave
\* every cell of the column missing, and replace re-infers the type of such a
\* column as float64, which has no .str accessor. A column with a string cell
\* stays of type object, and so does the column of a table without rows.
str_accessor_raises(df, column) ==
    /\ df # <<>>
    /\ \A k \in DOMAIN df : replace_nan(astype_str(df[k][column])) = NaN

\* clean_repo_data, the row-wise part, for a description column that keeps a
\* string: types, nans, line breaks of the description.
clean_repo_row(r) ==
    [r EXCEPT !.description = str_replace_newlines(replace_nan(astype_str(@)))]

\* clean_user_data, the row-wise part, for a bio column that keeps a string:
\* types, nans, line breaks of the bio.
clean_user_row(r) ==
    [r EXCEPT !.bio = str_replace_newlines(replace_nan(astype_str(@)))]

\* clean_repo_data(df): the table returned, or the exception raised at the
\* description's .str.
clean_repo_data(df) ==
    IF str_accessor_raises(df, "description") THEN AttributeError
    ELSE drop_duplicates([k \in DOMAIN df |-> clean_repo_row(df[k])], "False")

\* clean_user_data(df): the table returned, or the exception raised at the
\* bio's .str.
clean_user_data(df) ==
    IF str_accessor_raises(df, "bio") THEN AttributeError
    ELSE drop_duplicates([k \in DOMAIN df |-> clean_user_row(df[k])], "first")

RawRepoRows == [id : 1..MaxId, description : Texts]
RawUserRows == [id : 1..MaxId, bio : Texts]

----------------------------------------------------------------------------
(* Cleaner: clean_data on one file *)

\* "if "user-data" in f: clean_df = clean_user_data(df); clean_df.to_csv(...)":
\* nothing is written when clean_user_data raises.
CleanUserFile ==
    /\ pc = "cd_read"
    /\ kind = "user-data"
    /\ IF str_accessor_raises(raw, "bio")
       THEN pc' = "cd_crashed" /\ UNCHANGED cleaned
       ELSE pc' = "cd_written" /\ cleaned' = clean_user_data(raw)
    /\ UNCHANGED <<kind, raw>>
    /\ UNCHANGED collectorVars /\ UNCHANGED topVars
    /\ UNCHANGED laterVars

\* "else: clean_df = clean_repo_data(df); clean_df.to_csv(...)": nothing is
\* written when clean_repo_data raises.
CleanRepoFile ==
    /\ pc = "cd_read"
    /\ kind # "user-data"
    /\ IF str_accessor_raises(raw, "description")
       THEN pc' = "cd_crashed" /\ UNCHANGED cleaned
       ELSE pc' = "cd_written" /\ cleaned' = clean_repo_data(raw)
    /\ UNCHANGED <<kind, raw>>
    /\ UNCHANGED collectorVars /\ UNCHANGED topVars
    /\ UNCHANGED laterVars

\* The state after "df = pd.read_csv(f, ...)", for each file and each raw table.
InitClean ==
    /\ pc = "cd_read"
    /\ \/ kind = "user-data" /\ raw \in SeqsUpTo(RawUserRows, MaxRows)
       \/ kind = "top-repos" /\ raw \in SeqsUpTo(RawRepoRows, MaxRows)
    /\ cleaned = <<>>
    /\ CollectorIdle /\ TopIdle /\ LaterIdle

NextClean == CleanUserFile \/ CleanRepoFile

SpecClean == InitClean /\ [][NextClean]_vars

----------------------------------------------------------------------------
(* Cleaner: properties *)

\* The indices of the rows of df with the given id.
RowsWithId(df, id) == {k \in DOMAIN df : df[k].id = id}

\* The index of the first row of df with the given id.
FirstWithId(df, id) == CHOOSE k \in RowsWithId(df, id) : \A m \in RowsWithId(df, id) : k <= m

\* The n-th smallest element of a set of indices.
NthOf(S, n) == CHOOSE k \in S : Cardinality({m \in S : m < k}) = n - 1

\* The table clean_repo_data returned has no id more than once; an id that
\* occurs two or more times in the input has no row in the output; an id that
\* occurs exactly once has exactly its one (cleaned) row in the output.
ReturnedRepoTable ==
    (pc = "cd_written" /\ kind = "top-repos") =>
        \A id \in 1..MaxId :
            /\ Cardinality(RowsWithId(cleaned, id)) <= 1
            /\ Cardinality(RowsWithId(raw, id)) >= 2 => RowsWithId(cleaned, id) = {}
            /\ Cardinality(RowsWithId(raw, id)) = 1 =>
                 /\ Cardinality(RowsWithId(cleaned, id)) = 1
                 /\ cleaned[FirstWithId(cleaned, id)]
                        = clean_repo_row(raw[FirstWithId(raw, id)])

\* C1: for every raw repository table clean_repo_data returns a table, and in
\* it no id appears more than once, an id that occurs two or more times in the
\* input has no row, and an id that occurs exactly once has exactly its one row.
C1_DuplicatedIdsRemoved ==
    /\ (kind = "top-repos" /\ pc # "cd_read") => pc = "cd_written"
    /\ ReturnedRepoTable

\* The table clean_user_data returned has no id more than once; every id of the
\* input is present; the row of an id is the (cleaned) first row of the input
\* with that id; the surviving rows are in their input order.
ReturnedUserTable ==
    (pc = "cd_written" /\ kind = "user-data") =>
        LET ids == {raw[k].id : k \in DOMAIN raw}
            firsts == {FirstWithId(raw, id) : id \in ids}
        IN  /\ \A id \in ids : Cardinality(RowsWithId(cleaned, id)) = 1
            /\ Len(cleaned) = Cardinality(ids)
            /\ \A n \in DOMAIN cleaned :
                 cleaned[n] = clean_user_row(raw[NthOf(firsts, n)])

\* C2: for every raw user table clean_user_data returns a table, and in it no
\* id appears more than once, every id of the input is present, the row of an
\* id is its first input row, and the rows are in their input order.
C2_FirstOfEachIdKept ==
    /\ (kind = "user-data" /\ pc # "cd_read") => pc = "cd_written"
    /\ ReturnedUserTable

----------------------------------------------------------------------------
(* Collector: get_top_users_and_orgs and the pandas operations it uses *)

MaxExtra == 3           \* rows of a table besides its block of distinct rows

TopN == 25              \* get_top_users_and_orgs: .head(25)

\* DataFrame.head(n)
head(df, n) == SubSeq(df, 1, Min(n, Len(df)))

\* DataFrame.query("type == '<t>'")
query_type(df, t) == SelectSeq(df, LAMBDA r : r.type = t)

\* The sequences that hold the rows of df at the indices S in an order where the
\* values of the column never go up (when up is FALSE) or down (when up is TRUE).
RECURSIVE SortedOrders(_, _, _, _)
SortedOrders(df, S, column, up) ==
    IF S = {} THEN {<<>>}
    ELSE LET next == {k \in S : \A m \in S :
                        IF up THEN df[k][column] <= df[m][column]
                              ELSE df[k][column] >= df[m][column]}
         IN  UNION {{<<df[k]>> \o rest : rest \in SortedOrders(df, S \ {k}, column, up)}
                    : k \in next}

\* A mutant of sort_values: ascending=True.
sort_values_ascending(df, column) == SortedOrders(df, DOMAIN df, column, TRUE)

\* DataFrame.sort_values(column, ascending=False), with the default
\* kind="quicksort": the sort is not stable, so rows with equal values come out
\* in an order the build decides. The set of all results it can give.
sort_values(df, column) == SortedOrders(df, DOMAIN df, column, FALSE)

\* The sum of the stars of the rows of df at the indices S.
RECURSIVE SumStars(_, _)
SumStars(df, S) ==
    IF S = {} THEN 0
    ELSE LET k == CHOOSE m \in S : TRUE
         IN  df[k].stars + SumStars(df, S \ {k})

\* The groups for the usernames U, in ascending order of username.
RECURSIVE GroupRows(_, _)
GroupRows(df, U) ==
    IF U = {} THEN <<>>
    ELSE LET u == CHOOSE a \in U : \A b \in U : a <= b
         IN  <<[username |-> u,
                stars |-> SumStars(df, {k \in DOMAIN df : df[k].username = u})]>>
             \o GroupRows(df, U \ {u})

\* DataFrame.groupby("username").sum().reset_index(): one row per username with
\* the sum of its stars, the groups sorted by username (groupby's sort=True).
groupby_username_sum(df) == GroupRows(df, {df[k].username : k \in DOMAIN df})

\* A mutant of organization_rows: the query on type is left out.
organization_rows_unfiltered(df) == df

\* top_repos_df.query("type == 'Organization'")
organization_rows(df) == query_type(df, "Organization")

\* The rest of the top_users expression, applied to the sorted table:
\* .head(25).query("type == 'User'")["username"].tolist(), made a set.
top_users_from(sorted) ==
    {r.username : r \in Range(query_type(head(sorted, TopN), "User"))}

\* The rest of the top_organizations expression, applied to the sorted groups:
\* ["username"].head(25).tolist(), made a set.
top_organizations_from(sorted) ==
    {r.username : r \in Range(head(sorted, TopN))}

\* get_top_users_and_orgs(user_data_df, top_repos_df)
GetTopUsersAndOrgs ==
    /\ pc = "gtuo_start"
    /\ \E sorted \in sort_values(user_data_df, "followers") :
         top_users' = top_users_from(sorted)
    /\ \E sorted \in sort_values(groupby_username_sum(organization_rows(top_repos_df)),
                                 "stars") :
         top_organizations' = top_organizations_from(sorted)
    /\ pc' = "gtuo_done"
    /\ UNCHANGED <<user_data_df, top_repos_df>>
    /\ UNCHANGED collectorVars /\ UNCHANGED cleanerVars
    /\ UNCHANGED laterVars

----------------------------------------------------------------------------
(* get_top_users_and_orgs: the tables tried *)

Types == {"User", "Organization"}

\* Sizes of the block of distinct rows: none, or enough for the rows besides it
\* to fall on both sides of the 25th place.
BlockSizes == {0, TopN - 2, TopN - 1}

\* A block of n users with n different follower counts, all above those of the
\* other rows.
UserBlock(n) == [k \in 1..n |-> [id |-> 100 + k, username |-> 100 + k,
                                 type |-> "User", followers |-> 10 + k]]

\* A block of n organizations with one repository each and n different star
\* counts, all above the sums of the other rows.
RepoBlock(n) == [k \in 1..n |-> [id |-> 100 + k, username |-> 100 + k,
                                 type |-> "Organization", stars |-> 10 + k]]

\* The other rows of a user table: unique ids, one username per id, either type.
ExtraUserRows(k) == [id : {k}, username : {k}, type : Types, followers : 1..2]

ExtraUserTables == UNION {{t \in [1..n -> UNION {ExtraUserRows(k) : k \in 1..n}] :
                              \A k \in 1..n : t[k].id = k} : n \in 0..MaxExtra}

\* The owner type of the usernames of the other rows of a repository table.
TypeOfOwner(u) == IF u = 1 THEN "User" ELSE "Organization"

\* The other rows of a repository table: owners 1..3, several rows per owner.
ExtraRepoRows(k) == {[id |-> k, username |-> u, type |-> TypeOfOwner(u), stars |-> st] :
                        u \in 1..3, st \in 1..2}

ExtraRepoTables == UNION {{t \in [1..n -> UNION {ExtraRepoRows(k) : k \in 1..n}] :
                              \A k \in 1..n : t[k].id = k} : n \in 0..MaxExtra}

\* The state at the call of get_top_users_and_orgs, for each pair of tables.
InitTop ==
    /\ pc = "gtuo_start"
    /\ \E n \in BlockSizes :
         \/ /\ user_data_df \in {UserBlock(n) \o t : t \in ExtraUserTables}
            /\ top_repos_df = RepoBlock(n)
         \/ /\ user_data_df = UserBlock(n)
            /\ top_repos_df \in {RepoBlock(n) \o t : t \in ExtraRepoTables}
    /\ top_users = {} /\ top_organizations = {}
    /\ CollectorIdle /\ CleanerIdle /\ LaterIdle

NextTop == GetTopUsersAndOrgs

SpecTop == InitTop /\ [][NextTop]_vars

----------------------------------------------------------------------------
(* get_top_users_and_orgs: properties *)

\* The usernames of the rows of type User of the user table.
UserNames == {user_data_df[k].username :
                 k \in {m \in DOMAIN user_data_df : user_data_df[m].type = "User"}}

\* The follower count of a username (ids and usernames are unique).
FollowersOf(u) ==
    user_data_df[CHOOSE k \in DOMAIN user_data_df : user_data_df[k].username = u].followers

\* The usernames of the rows of type Organization of the repository table.
OrgNames == {top_repos_df[k].username :
                k \in {m \in DOMAIN top_repos_df : top_repos_df[m].type = "Organization"}}

\* The summed stars of the repositories of a username in the repository table.
StarsOf(u) == SumStars(top_repos_df, {k \in DOMAIN top_repos_df : top_repos_df[k].username = u})

\* The index of the first row of a username in the repository table.
FirstRepoOf(u) == CHOOSE k \in DOMAIN top_repos_df :
                    /\ top_repos_df[k].username = u
                    /\ \A m \in 1..(k - 1) : top_repos_df[m].username # u

\* C8: top_users is the set of the usernames of the 25 rows of type User with the
\* highest follower counts among the rows of type User (all of them when fewer
\* than 25 exist), whatever the follower counts of the Organization rows.
C8_TopUsersAmongUsers ==
    pc = "gtuo_done" =>
        /\ top_users \subseteq UserNames
        /\ Cardinality(top_users) = Min(TopN, Cardinality(UserNames))
        /\ \A a \in top_users : \A b \in UserNames \ top_users :
             FollowersOf(a) >= FollowersOf(b)

\* C9: top_organizations holds only usernames of rows of type Organization, 25 of
\* them (all when fewer exist), and none left out has a higher summed star count
\* than one taken; a username of type User is never in it.
C9_TopOrganizationsByStars ==
    pc = "gtuo_done" =>
        /\ top_organizations \subseteq OrgNames
        /\ Cardinality(top_organizations) = Min(TopN, Cardinality(OrgNames))
        /\ \A a \in top_organizations : \A b \in OrgNames \ top_organizations :
             StarsOf(a) >= StarsOf(b)
        /\ \A k \in DOMAIN top_repos_df :
             top_repos_df[k].type = "User" => top_repos_df[k].username \notin top_organizations

\* C9's case: more than 25 organizations, and an owner of type User whose summed
\* stars are above those of an organization that is taken.
C9_Witness ==
    /\ pc = "gtuo_done"
    /\ Cardinality(OrgNames) > TopN
    /\ Cardinality(top_organizations) = TopN
    /\ \E k \in DOMAIN top_repos_df :
         /\ top_repos_df[k].type = "User"
         /\ \E a \in top_organizations : StarsOf(top_repos_df[k].username) > StarsOf(a)

\* C10 as claimed: of two candidates with the same ranking value, the one that
\* comes later in the input table is selected only if the earlier one is.
C10_TiesByInsertionOrder ==
    pc = "gtuo_done" =>
        /\ \A a, b \in DOMAIN user_data_df :
             ( /\ a < b
               /\ user_data_df[a].type = "User" /\ user_data_df[b].type = "User"
               /\ user_data_df[a].followers = user_data_df[b].followers
               /\ user_data_df[b].username \in top_users )
             => user_data_df[a].username \in top_users
        /\ \A a, b \in OrgNames :
             ( /\ FirstRepoOf(a) < FirstRepoOf(b)
               /\ StarsOf(a) = StarsOf(b)
               /\ b \in top_organizations )
             => a \in top_organizations

\* C10 amended: a selected candidate never has a lower ranking value than a
\* candidate of the same kind that is not selected; among candidates with equal
\* values the selection is not fixed by the input order.
C10_SelectedNotBelowUnselected ==
    pc = "gtuo_done" =>
        /\ \A a \in top_users : \A b \in UserNames \ top_users :
             FollowersOf(a) >= FollowersOf(b)
        /\ \A a \in top_organizations : \A b \in OrgNames \ top_organizations :
             StarsOf(a) >= StarsOf(b)

\* C10's case: two users with the same follower count at the 25th place, one
\* selected and one not.
C10_Witness ==
    /\ pc = "gtuo_done"
    /\ Len(user_data_df) > TopN
    /\ \E a \in top_users : \E b \in UserNames \ top_users :
         FollowersOf(a) = FollowersOf(b)

----------------------------------------------------------------------------
(* The Cleaner: create_location_df (data_cleaning.py).  Every cell of the  *)
(* user table is a string here, except the id (a number) and the           *)
(* geo-location (the object the geocoder returns).                         *)

MaxUsers == 3           \* rows of the cleaned user table passed in

\* A missing cell (NaN, None) of a column of strings.
Null == "NaN"

\* Extend a row by one column (df[c] = v on that row).
SetColumn(r, c, v) == [x \in DOMAIN r \cup {c} |-> IF x = c THEN v ELSE r[x]]

\* An operation that returns a new frame: the heap with the object added, and
\* the reference to it.
new_frame(h, table) == [heap |-> Append(h, table), ref |-> Len(h) + 1]

\* An assignment of the frame itself, where the code takes a copy.
copy_alias(h, r) == [heap |-> h, ref |-> r]

\* DataFrame.copy().
copy(h, r) == new_frame(h, h[r])

\* "error_inducing"; its third entry is not ASCII in the source and is
\* written here in transliteration.
error_inducing ==
    {"Armonk, New York, U.S.", "School 42 Paris, France", "weibo: dige youdian chou"}

\* What pd.read_csv(url, names=["continent", "country"], header=0) can read:
\* the file is outside the repository, so its rows are not known.  Tried are a
\* file that lists every country once and a file that lists a country under
\* two continents.
ContinentCsvs ==
    { << [continent |-> "North America", country |-> "Canada"],
         [continent |-> "North America", country |-> "US"],
         [continent |-> "Europe", country |-> "Russian Federation"] >>,
      << [continent |-> "North America", country |-> "Canada"],
         [continent |-> "North America", country |-> "US"],
         [continent |-> "South America", country |-> "US"],
         [continent |-> "Europe", country |-> "Russian Federation"] >> }

\* The reference table: the rows read from the url, followed by
\* "missing_countries".
continents_df(csv) ==
    csv \o << [continent |-> "Asia", country |-> "Taiwan"],
              [continent |-> "Africa", country |-> "Eswatini"] >>

\* The geocoder.  A lookup returns None (nothing found, or an error that the
\* RateLimiter swallows) or a Location with its coordinates and the address of
\* its raw answer.  The address of a country or of a place in a country has
\* the key "country"; the address of a continent has not.
NoLocation == [found |-> FALSE, latitude |-> Null, longitude |-> Null, address |-> <<>>]
Place(q) ==
    CASE q = "Toronto, Canada" ->
           [found |-> TRUE, latitude |-> "43.65", longitude |-> "-79.38",
            address |-> [city |-> "Toronto", country |-> "Canada"]]
      [] q = "United States" ->
           [found |-> TRUE, latitude |-> "39.78", longitude |-> "-100.45",
            address |-> [country |-> "United States"]]
      [] q = "Pristina" ->
           [found |-> TRUE, latitude |-> "42.66", longitude |-> "21.16",
            address |-> [city |-> "Pristina", country |-> "Kosovo"]]
      [] q = "Europe" ->
           [found |-> TRUE, latitude |-> "51.00", longitude |-> "10.00",
            address |-> [continent |-> "Europe"]]
      [] OTHER -> NoLocation
geocode(q) == {NoLocation, Place(q)}

\* df.copy().dropna(subset=["location"]), then
\* query("location not in @error_inducing").
locations_to_geocode(frame) ==
    SelectSeq(frame, LAMBDA r : r.location # Null /\ r.location \notin error_inducing)

\* dropna(subset=["geo-location"]).
dropna_geo_location(frame) == SelectSeq(frame, LAMBDA r : r["geo-location"].found)

\* x.raw["address"]["country"] (line 180) raises KeyError for a row of the
\* frame: the address of its Location has no key "country".
country_raises(frame) ==
    \E k \in 1..Len(frame) : "country" \notin DOMAIN frame[k]["geo-location"].address

\* The latitude, longitude and country columns, each by apply on geo-location,
\* for a frame on which the country does not raise.
add_coordinates(frame) ==
    [k \in 1..Len(frame) |->
        LET g == frame[k]["geo-location"]
        IN  SetColumn(SetColumn(SetColumn(frame[k], "latitude", g.latitude),
                                "longitude", g.longitude),
                      "country", g.address.country)]

to_replace == <<"United States", "South Korea", "Russia", "Czechia">>
replace_with == <<"US", "Korea, South", "Russian Federation", "CZ">>

\* What replace does to one cell that holds a string.
replace_cell(v) ==
    IF \E k \in 1..Len(to_replace) : to_replace[k] = v
    THEN replace_with[CHOOSE k \in 1..Len(to_replace) : to_replace[k] = v]
    ELSE v

\* What replace does to one cell that holds a text written as a sequence of
\* characters (a bio): the text that spells a key becomes the text that spells
\* its value.
replace_text(t) ==
    LET keys == << <<"U", "n", "i", "t", "e", "d", " ", "S", "t", "a", "t", "e", "s">>,
                   <<"S", "o", "u", "t", "h", " ", "K", "o", "r", "e", "a">>,
                   <<"R", "u", "s", "s", "i", "a">>,
                   <<"C", "z", "e", "c", "h", "i", "a">> >>
        values == << <<"U", "S">>,
                     <<"K", "o", "r", "e", "a", ",", " ", "S", "o", "u", "t", "h">>,
                     <<"R", "u", "s", "s", "i", "a", "n", " ", "F", "e", "d", "e", "r", "a", "t", "i", "o", "n">>,
                     <<"C", "Z">> >>
    IN  IF \E k \in 1..Len(keys) : keys[k] = t
        THEN values[CHOOSE k \in 1..Len(keys) : keys[k] = t]
        ELSE t

\* What replace does to one cell of the username column.  A username is
\* written as a number that stands for a login: 3 stands for the login
\* "Russia", which is a key, and 0 for "Russian Federation"; the logins of the
\* other numbers are no key.
replace_username(u) == IF u = 3 THEN 0 ELSE u

\* location_df.replace(to_replace, value=replace_with): every cell of the
\* frame that equals a key is replaced, whatever its column.  The cells of the
\* columns id, followers and created are numbers or dates and those of
\* geo-location are Location objects: they equal no key.
replace(frame) ==
    [k \in 1..Len(frame) |->
        [c \in DOMAIN frame[k] |->
            CASE c \in {"id", "followers", "created", "geo-location"} -> frame[k][c]
              [] c = "username" -> replace_username(frame[k][c])
              [] c = "bio" -> replace_text(frame[k][c])
              [] OTHER -> replace_cell(frame[k][c])]]

\* location_df.merge(continents_df, on="country", how="left").
RECURSIVE merge_left(_, _)
merge_left(left, right) ==
    IF left = <<>> THEN <<>>
    ELSE LET row == Head(left)
             matches == SelectSeq(right, LAMBDA c : c.country = row.country)
             joined == IF matches = <<>>
                       THEN << SetColumn(row, "continent", Null) >>
                       ELSE [m \in 1..Len(matches) |->
                                SetColumn(row, "continent", matches[m].continent)]
         IN  joined \o merge_left(Tail(left), right)

\* create_location_df(df) as a function of the table, of the rows csv read from
\* the url and of the results geo[1], geo[2], ... of its lookups, in the order
\* of the rows looked up: the frame returned, or the KeyError of line 180.
create_location_df(frame, csv, geo) ==
    LET rows == locations_to_geocode(frame)
        looked_up == [k \in 1..Len(rows) |-> SetColumn(rows[k], "geo-location", geo[k])]
        found == dropna_geo_location(looked_up)
    IN  IF country_raises(found) THEN [raises |-> "KeyError"]
        ELSE merge_left(replace(add_coordinates(found)), continents_df(csv))

\* Lines 153-158: the working frame is made from a copy of the table passed in.
StartLocation ==
    /\ pc = "cld_start"
    /\ LET c == copy(<<clean_df>>, 1)
           d == new_frame(c.heap, locations_to_geocode(c.heap[c.ref]))
       IN  /\ clean_df' = d.heap[1]
           /\ location_df' = d.heap[d.ref]
    /\ pc' = "cld_geocode"
    /\ UNCHANGED lookups
    /\ UNCHANGED collectorVars /\ UNCHANGED cleanerVars /\ UNCHANGED topVars
    /\ UNCHANGED <<topicVars, chartVars, reportVars, mainVars>>

\* Line 169: location_df["location"].apply(geocode), one row at a time, and the
\* assignment of the results to the working frame.
GeocodeRow ==
    /\ pc = "cld_geocode"
    /\ Len(lookups) < Len(location_df)
    /\ LET k == Len(lookups) + 1
           row == location_df[k]
       IN  \E g \in geocode(row.location) :
              LET h == [<<clean_df, location_df>> EXCEPT
                           ![2][k] = SetColumn(row, "geo-location", g)]
              IN  /\ clean_df' = h[1]
                  /\ location_df' = h[2]
                  /\ lookups' = Append(lookups, [id |-> row.id, location |-> row.location,
                                                 found |-> g.found])
    /\ UNCHANGED pc
    /\ UNCHANGED collectorVars /\ UNCHANGED cleanerVars /\ UNCHANGED topVars
    /\ UNCHANGED <<topicVars, chartVars, reportVars, mainVars>>

\* Lines 170-189: drop the rows without a result (a new frame), add the
\* columns to it, replace the aliases, join the continents, return; or the
\* KeyError of line 180, and nothing is returned.
FinishLocation ==
    /\ pc = "cld_geocode"
    /\ Len(lookups) = Len(location_df)
    /\ IF country_raises(dropna_geo_location(location_df))
       THEN /\ pc' = "cld_crashed"
            /\ UNCHANGED location_df
       ELSE /\ \E csv \in ContinentCsvs :
                  location_df' =
                      merge_left(replace(add_coordinates(dropna_geo_location(location_df))),
                                 continents_df(csv))
            /\ pc' = "cld_done"
    /\ UNCHANGED <<clean_df, lookups>>
    /\ UNCHANGED collectorVars /\ UNCHANGED cleanerVars /\ UNCHANGED topVars
    /\ UNCHANGED <<topicVars, chartVars, reportVars, mainVars>>

Locations == {Null, "Armonk, New York, U.S.", "Toronto, Canada", "United States", "Pristina",
              "Europe"}

\* The cleaned user tables passed in: ids are unique (clean_user_data).
CleanUserTables ==
    UNION { { [k \in 1..n |-> [id |-> k, username |-> k,
                               name |-> IF k = 1 THEN "Russia" ELSE "Ann",
                               bio |-> IF k = 2 THEN <<"R", "u", "s", "s", "i", "a">> ELSE <<"a">>,
                               location |-> loc[k]]] :
                loc \in [1..n -> Locations] } : n \in 0..MaxUsers }

InitLocation ==
    /\ pc = "cld_start"
    /\ clean_df \in CleanUserTables
    /\ location_df = <<>> /\ lookups = <<>>
    /\ CollectorIdle /\ CleanerIdle /\ TopIdle
    /\ TopicIdle /\ ChartIdle /\ ReportIdle /\ MainIdle

NextLocation == StartLocation \/ GeocodeRow \/ FinishLocation

SpecLocation == InitLocation /\ [][NextLocation]_vars

----------------------------------------------------------------------------
(* Properties of create_location_df *)

\* The rows create_location_df has to look up, in the order of the table.
RowsToLookUp == SelectSeq(clean_df,
                          LAMBDA r : r.location # Null /\ r.location \notin error_inducing)

\* The ids of the lookups that returned a result, in order.
FoundLookups == SelectSeq(lookups, LAMBDA l : l.found)

\* No lookup is issued for a row whose location is null or denylisted; the
\* other rows are looked up once each, one after the other in the order of
\* the table, and all of them before the function ends.
LookupsInTableOrder ==
    /\ Len(lookups) <= Len(RowsToLookUp)
    /\ \A k \in 1..Len(lookups) :
          /\ lookups[k].id = RowsToLookUp[k].id
          /\ lookups[k].location = RowsToLookUp[k].location
    /\ pc \in {"cld_done", "cld_crashed"} => Len(lookups) = Len(RowsToLookUp)

\* C11: no lookup is issued for a row whose location is null or denylisted;
\* the other rows are looked up once each, one after the other in the order
\* of the table; create_location_df returns a frame, and it has exactly one
\* row for each user whose lookup returned a result, each with a latitude, a
\* longitude and a country, and no other row; and the table passed in is
\* never changed.
C11_LookupsAndRows ==
    [] ( /\ LookupsInTableOrder
         /\ pc # "cld_crashed"
         /\ pc = "cld_done" =>
               /\ Len(location_df) = Len(FoundLookups)
               /\ \A k \in 1..Len(location_df) :
                     /\ location_df[k].id = FoundLookups[k].id
                     /\ location_df[k].latitude # Null
                     /\ location_df[k].longitude # Null
                     /\ location_df[k].country # Null )
    /\ [][clean_df' = clean_df]_vars

\* C18: the alias replacement changes the country only: the id, the username,
\* the name, the bio and the location of every row returned are those of the
\* row passed in, and the coordinates are those the geocoder returned.
C18_ReplaceChangesCountryOnly ==
    pc = "cld_done" =>
        \A k \in 1..Len(location_df) :
            LET row == location_df[k]
                src == clean_df[row.id]
            IN  /\ row.username = src.username
                /\ row.name = src.name
                /\ row.bio = src.bio
                /\ row.location = src.location
                /\ row.latitude = row["geo-location"].latitude
                /\ row.longitude = row["geo-location"].longitude

----------------------------------------------------------------------------
(* The topics field on its way from the Collector through the raw file,    *)
(* the Cleaner and the cleaned file to the Reporter.  A Python value is a   *)
(* record: a list of topics, a str (a sequence of characters) or the float  *)
(* NaN.  The text of a file cell is a sequence of characters; the csv       *)
(* quoting of a cell is undone by the reader and is left out.               *)

MaxTopics == 2          \* topics of one repository
MaxTopicLen == 2        \* characters of one topic

TopicNames == UNION { [1..n -> {"a", "b"}] : n \in 1..MaxTopicLen }
TopicLists == UNION { [1..n -> TopicNames] : n \in 0..MaxTopics }

ListValue(l) == [type |-> "list", items |-> l]
StrValue(s) == [type |-> "str", items |-> s]
NaNValue == [type |-> "float", items |-> <<>>]

\* repr of a str without quote characters: the str between single quotes.
repr_str(s) == <<"'">> \o s \o <<"'">>

\* The items of a list, each by repr, joined by ", ".
RECURSIVE join_reprs(_)
join_reprs(l) ==
    IF l = <<>> THEN <<>>
    ELSE IF Len(l) = 1 THEN repr_str(l[1])
    ELSE repr_str(l[1]) \o <<",", " ">> \o join_reprs(Tail(l))

\* str(list), which is what to_csv writes for a cell that holds a list.
str_list(l) == <<"[">> \o join_reprs(l) \o <<"]">>

\* to_csv of one cell: NaN is written as the empty text.
to_csv(v) ==
    CASE v.type = "list" -> str_list(v.items)
      [] v.type = "str" -> v.items
      [] OTHER -> <<>>

\* read_csv of one cell: the empty text is read as NaN, any other as a str.
read_csv(text) == IF text = <<>> THEN NaNValue ELSE StrValue(text)

\* eval of the text of a list of str literals: the literals, in order.
RECURSIVE eval_items(_, _, _)
eval_items(text, quoted, literal) ==
    IF text = <<>> THEN <<>>
    ELSE IF Head(text) = "'"
         THEN IF quoted
              THEN <<literal>> \o eval_items(Tail(text), FALSE, <<>>)
              ELSE eval_items(Tail(text), TRUE, <<>>)
         ELSE IF quoted
              THEN eval_items(Tail(text), TRUE, Append(literal, Head(text)))
              ELSE eval_items(Tail(text), FALSE, literal)

\* clean_repo_data on the topics cell: astype(str) leaves a str as it is,
\* .apply(eval), then "x if x else np.nan".
clean_topics(v) ==
    LET x == eval_items(v.items, FALSE, <<>>)
    IN  IF x # <<>> THEN ListValue(x) ELSE NaNValue

\* explode("topics").dropna(subset=["topics"]) on one row: a list gives one
\* entry per item, a str stays one entry, NaN gives none.
explode_dropna(v) ==
    CASE v.type = "list" -> [k \in 1..Len(v.items) |-> StrValue(v.items[k])]
      [] v.type = "str" -> <<v>>
      [] OTHER -> <<>>

\* main: top_repos_df.to_csv (the record holds repo.get_topics()).
CollectorWritesTopics ==
    /\ pc = "tp_scraped"
    /\ cell' = to_csv(value)
    /\ pc' = "tp_raw_written"
    /\ UNCHANGED <<topics, value>>
    /\ UNCHANGED collectorVars /\ UNCHANGED cleanerVars /\ UNCHANGED topVars
    /\ UNCHANGED <<locationVars, chartVars, reportVars, mainVars>>

\* clean_data: pd.read_csv and clean_repo_data.
CleanerCleansTopics ==
    /\ pc = "tp_raw_written"
    /\ value' = clean_topics(read_csv(cell))
    /\ pc' = "tp_cleaned"
    /\ UNCHANGED <<topics, cell>>
    /\ UNCHANGED collectorVars /\ UNCHANGED cleanerVars /\ UNCHANGED topVars
    /\ UNCHANGED <<locationVars, chartVars, reportVars, mainVars>>

\* clean_data: clean_df.to_csv.
CleanerWritesTopics ==
    /\ pc = "tp_cleaned"
    /\ cell' = to_csv(value)
    /\ pc' = "tp_clean_written"
    /\ UNCHANGED <<topics, value>>
    /\ UNCHANGED collectorVars /\ UNCHANGED cleanerVars /\ UNCHANGED topVars
    /\ UNCHANGED <<locationVars, chartVars, reportVars, mainVars>>

\* get_data: pd.read_csv of the cleaned file; the topics column is not parsed.
ReporterReadsTopics ==
    /\ pc = "tp_clean_written"
    /\ value' = read_csv(cell)
    /\ pc' = "tp_loaded"
    /\ UNCHANGED <<topics, cell>>
    /\ UNCHANGED collectorVars /\ UNCHANGED cleanerVars /\ UNCHANGED topVars
    /\ UNCHANGED <<locationVars, chartVars, reportVars, mainVars>>

\* yearly_topics_chart: the topic entries of the row.
ReporterExplodesTopics ==
    /\ pc = "tp_loaded"
    /\ chart_data' = explode_dropna(value)
    /\ pc' = "tp_exploded"
    /\ UNCHANGED <<topics, cell, value, chart_input>>
    /\ UNCHANGED collectorVars /\ UNCHANGED cleanerVars /\ UNCHANGED topVars
    /\ UNCHANGED <<locationVars, reportVars, mainVars>>

InitTopics ==
    /\ pc = "tp_scraped"
    /\ topics \in TopicLists
    /\ value = ListValue(topics)
    /\ cell = <<>>
    /\ CollectorIdle /\ CleanerIdle /\ TopIdle
    /\ LocationIdle /\ ChartIdle /\ ReportIdle /\ MainIdle

NextTopics ==
    \/ CollectorWritesTopics \/ CleanerCleansTopics \/ CleanerWritesTopics
    \/ ReporterReadsTopics \/ ReporterExplodesTopics

SpecTopics == InitTopics /\ [][NextTopics]_vars

----------------------------------------------------------------------------
(* Properties of the topics field *)

\* The value is the scraped list when that is non-empty, and null when empty.
SameTopics(v) ==
    IF topics # <<>> THEN v.type = "list" /\ v.items = topics
    ELSE v.type = "float"

\* C12: the value clean_repo_data computes from the raw file is the scraped
\* list of topics when that is non-empty and null when it is empty, and so is
\* the value the Reporter reads from the cleaned file.
C12_TopicsRoundTrip ==
    /\ pc = "tp_cleaned" => SameTopics(value)
    /\ pc \in {"tp_loaded", "tp_exploded"} => SameTopics(value)

----------------------------------------------------------------------------
(* The Reporter: top_10_repos_chart and top_10_lang_stars_chart            *)
(* (data_visualization.py), each applied to one repository table.          *)

MaxTied == 3            \* rows of a table below its block of distinct star counts
MaxLangExtra == 3       \* rows of a table beside its block of languages

RankCap == 10           \* top_10_repos_chart: "alt.datum.rank <= 10"
TopLanguages == 10      \* top_10_lang_stars_chart: "value_counts()[:10]"

\* The window operation rank over the rows sorted the other way round
\* (ascending stars): one more than the number of rows with fewer stars.
rank_ascending(frame, k) ==
    1 + Cardinality({m \in 1..Len(frame) : frame[m].stars < frame[k].stars})

\* transform_window(rank="rank(stars)", sort=[SortField("stars", "descending")]):
\* rows with equal stars share a rank, and the rank counts the rows before them.
rank(frame, k) ==
    1 + Cardinality({m \in 1..Len(frame) : frame[m].stars > frame[k].stars})

\* The data of the chart of top_10_repos_chart: the rows with their rank that
\* pass transform_filter(alt.datum.rank <= 10).
top_10_repos_chart(frame) ==
    { SetColumn(frame[k], "rank", rank(frame, k)) :
        k \in {m \in 1..Len(frame) : rank(frame, m) <= RankCap} }

\* replace(to_replace=[np.nan, "MATLAB"], value=["No language", "Matlab"]).
replace_language(l) ==
    IF l = Null THEN "No language" ELSE IF l = "MATLAB" THEN "Matlab" ELSE l

\* language_summary["language"].value_counts(): the count of each language.
value_counts(languages) ==
    [l \in Range(languages) |->
        Cardinality({k \in 1..Len(languages) : languages[k] = l})]

\* The index of value_counts()[:n], as a set: the n languages with the highest
\* counts; equal counts are in no fixed order, so each choice among them at
\* the cut is possible.
top_index_sets(counts, n) ==
    LET L == DOMAIN counts
        above(c) == {l \in L : counts[l] > c}
        atleast(c) == {l \in L : counts[l] >= c}
    IN  IF Cardinality(L) <= n THEN {L}
        ELSE LET c == CHOOSE x \in Range(counts) :
                         Cardinality(above(x)) < n /\ Cardinality(atleast(x)) >= n
             IN  { above(c) \cup S :
                     S \in {T \in SUBSET (atleast(c) \ above(c)) :
                              Cardinality(T) = n - Cardinality(above(c))} }

\* The map without its effect.
map_other_identity(l, top_languages) == l

\* .map(lambda x: x if x in top_languages else "Other").
map_other(l, top_languages) == IF l \in top_languages THEN l ELSE "Other"

\* groupby(["subject", "language"]).sum().reset_index(): one row for each pair
\* that occurs, with the sum of the stars of its rows.
groupby_subject_language_sum(frame) ==
    { [subject |-> frame[k].subject, language |-> frame[k].language,
       stars |-> SumStars(frame, {m \in 1..Len(frame) :
                                    /\ frame[m].subject = frame[k].subject
                                    /\ frame[m].language = frame[k].language})] :
        k \in 1..Len(frame) }

\* The data of the chart of top_10_lang_stars_chart, for one choice of the
\* top languages.
top_10_lang_stars_chart(frame, top_languages) ==
    groupby_subject_language_sum(
        [k \in 1..Len(frame) |->
            [frame[k] EXCEPT !.language =
                map_other(replace_language(frame[k].language), top_languages)]])

\* The possible values of top_languages for a table.
top_languages_of(frame) ==
    top_index_sets(value_counts([k \in 1..Len(frame) |->
                                    replace_language(frame[k].language)]),
                   TopLanguages)

Top10ReposChart ==
    /\ pc = "chart_top_10_repos"
    /\ chart_data' = top_10_repos_chart(chart_input)
    /\ pc' = "chart_top_10_repos_done"
    /\ UNCHANGED chart_input
    /\ UNCHANGED collectorVars /\ UNCHANGED cleanerVars /\ UNCHANGED topVars
    /\ UNCHANGED <<locationVars, topicVars, reportVars, mainVars>>

Top10LangStarsChart ==
    /\ pc = "chart_top_10_lang"
    /\ \E top_languages \in top_languages_of(chart_input) :
          chart_data' = top_10_lang_stars_chart(chart_input, top_languages)
    /\ pc' = "chart_top_10_lang_done"
    /\ UNCHANGED chart_input
    /\ UNCHANGED collectorVars /\ UNCHANGED cleanerVars /\ UNCHANGED topVars
    /\ UNCHANGED <<locationVars, topicVars, reportVars, mainVars>>

ChartSubjects == {"Deep learning", "Machine learning"}

\* Names for the languages of a block.
BlockLanguages == <<"Python", "Jupyter Notebook", "C++", "Java", "Go",
                    "JavaScript", "C", "Rust", "Scala">>

\* A block of n repositories with n different star counts, all above those of
\* the other rows.
StarBlock(n) == [k \in 1..n |-> [id |-> 100 + k, stars |-> 10 + k,
                                 language |-> "Python", subject |-> "Deep learning"]]

\* The other rows of a table for top_10_repos_chart.
TiedTables ==
    UNION { { [k \in 1..n |-> [id |-> k, stars |-> s[k], language |-> "Python",
                               subject |-> "Machine learning"]] :
                s \in [1..n -> 1..2] } : n \in 0..MaxTied }

\* A block of n languages with two repositories each.
LanguageBlock(n) ==
    [k \in 1..(2 * n) |-> [id |-> 100 + k, stars |-> 10,
                           language |-> BlockLanguages[((k - 1) \div 2) + 1],
                           subject |-> "Deep learning"]]

\* The other rows of a table for top_10_lang_stars_chart: the k-th has k stars.
ExtraLanguages == {Null, "MATLAB", "Matlab", "R"}
LanguageTables ==
    UNION { { [k \in 1..n |-> [id |-> k, stars |-> k, language |-> l[k],
                               subject |-> s[k]]] :
                l \in [1..n -> ExtraLanguages], s \in [1..n -> ChartSubjects] } :
            n \in 0..MaxLangExtra }

InitChart ==
    /\ \/ /\ pc = "chart_top_10_repos"
          /\ \E n \in {0, RankCap - 2, RankCap - 1} :
                \E t \in TiedTables : chart_input = StarBlock(n) \o t
       \/ /\ pc = "chart_top_10_lang"
          /\ \E n \in {0, TopLanguages - 2, TopLanguages - 1} :
                \E t \in LanguageTables : chart_input = LanguageBlock(n) \o t
    /\ chart_data = {}
    /\ CollectorIdle /\ CleanerIdle /\ TopIdle
    /\ LocationIdle /\ TopicIdle /\ ReportIdle /\ MainIdle

NextChart == Top10ReposChart \/ Top10LangStarsChart

SpecChart == InitChart /\ [][NextChart]_vars

----------------------------------------------------------------------------
(* Properties of the two charts *)

\* The rows of the table that are not in the chart data.
NotCharted == {k \in 1..Len(chart_input) :
                 \A d \in chart_data : d.id # chart_input[k].id}

\* C14 as stated: with at least 10 rows in the table the chart data has
\* exactly 10 rows, and no row left out has more stars than a row taken,
\* also when star counts are equal.
C14_ExactlyTenRows ==
    (pc = "chart_top_10_repos_done" /\ Len(chart_input) >= RankCap) =>
        /\ Cardinality(chart_data) = RankCap
        /\ \A d \in chart_data : \A k \in NotCharted : d.stars >= chart_input[k].stars

\* C14, amended: the chart data holds every row with fewer than 10 rows of
\* strictly more stars.  With at least 10 rows in the table it has at least
\* 10 rows, every row left out has fewer stars than every row taken, ranks
\* follow the descending order of stars with equal stars sharing a rank, and
\* it has more than 10 rows only when rows with equal stars reach the cut.
C14_RankAtMostTen ==
    pc = "chart_top_10_repos_done" =>
        /\ Len(chart_input) >= RankCap => Cardinality(chart_data) >= RankCap
        /\ Len(chart_input) < RankCap => Cardinality(chart_data) = Len(chart_input)
        /\ \A d \in chart_data : \A k \in NotCharted : d.stars > chart_input[k].stars
        /\ \A a, b \in chart_data :
              /\ a.stars > b.stars => a.rank < b.rank
              /\ a.stars = b.stars => a.rank = b.rank
        /\ Cardinality(chart_data) > RankCap =>
              \E a, b \in chart_data :
                  /\ a.id # b.id /\ a.stars = b.stars
                  /\ \A d \in chart_data : d.stars >= a.stars

\* Rows with equal stars at the cut: more than 10 rows are charted.
C14_Witness ==
    /\ pc = "chart_top_10_repos_done"
    /\ Cardinality(chart_data) > RankCap

\* A missing language counted as "No language", every other language as it is.
no_language(l) == IF l = Null THEN "No language" ELSE l

\* The statement of C13 for a set "distinct" of the distinct languages of
\* the table: when there are more than 10 of them, the chart data
\* has 10 named categories and "Other", no language left out is more frequent
\* than a named one, and for each subject the stars of "Other" are the sum of
\* the stars of the rows of the languages left out.  A row belongs to the
\* category that carries its language's name in the chart.
LanguageChartStatement(distinct) ==
    LET name(k) == replace_language(chart_input[k].language)
        languages == {name(k) : k \in 1..Len(chart_input)}
        count(l) == Cardinality({k \in 1..Len(chart_input) : name(k) = l})
        categories == {d.language : d \in chart_data}
        named == categories \ {"Other"}
        other(s) == {d \in chart_data : d.subject = s /\ d.language = "Other"}
        left_out(s) == {k \in 1..Len(chart_input) :
                          chart_input[k].subject = s /\ name(k) \notin named}
    IN  Cardinality(distinct) > TopLanguages =>
          /\ "Other" \in categories
          /\ Cardinality(named) = TopLanguages
          /\ named \subseteq languages
          /\ \A a \in named : \A b \in languages \ named : count(a) >= count(b)
          /\ \A s \in ChartSubjects :
                /\ Cardinality(other(s)) <= 1
                /\ other(s) = {} <=> left_out(s) = {}
                /\ \A d \in other(s) : d.stars = SumStars(chart_input, left_out(s))

\* C13 as stated: for every table with more than 10 distinct languages, a
\* missing one counted as "No language", the chart data has exactly 10 named
\* categories and "Other", the 10 are the most frequent, and "Other" sums the
\* rest.
C13_TenLanguagesAndOther ==
    pc = "chart_top_10_lang_done" =>
        LanguageChartStatement({no_language(chart_input[k].language) :
                                  k \in 1..Len(chart_input)})

\* C13, amended: the same for every table with more than 10 distinct
\* languages after the chart's own renaming, a missing one counted as
\* "No language" and "MATLAB" as "Matlab"; which of several equally frequent
\* languages are named is not fixed.
C13_TenRenamedLanguagesAndOther ==
    pc = "chart_top_10_lang_done" =>
        LanguageChartStatement({replace_language(chart_input[k].language) :
                                  k \in 1..Len(chart_input)})

\* A table with more than 10 languages after the renaming, "MATLAB" among
\* the rows, has been charted.
C13_Witness ==
    /\ pc = "chart_top_10_lang_done"
    /\ Cardinality({replace_language(chart_input[k].language) :
                      k \in 1..Len(chart_input)}) > TopLanguages
    /\ \E k \in 1..Len(chart_input) : chart_input[k].language = "MATLAB"
    /\ \E d \in chart_data : d.language = "Other"

----------------------------------------------------------------------------
(* The Collector's main (github_scraper.py), followed by clean_data and by  *)
(* the Reporter's call of get_top_users_and_orgs on the cleaned tables.     *)
(* Each function called is one step here: its requests and its quota        *)
(* checks are those of Spec.  A file holds the table written to it.         *)

MaxFound == 2           \* repositories one query finds

\* The record get_top_repos and scrape_repos build for the repository of owner
\* u; the repository of owner 3 has no description.
MainRepoRecord(u) == [id |-> 10 + u, username |-> u, type |-> TypeOfOwner(u),
                      stars |-> u, description |-> IF u = 3 THEN NaN ELSE <<"m", "l">>]

\* The record get_user_data builds for owner u.
MainUserRecord(u) == [id |-> u, username |-> u, type |-> TypeOfOwner(u),
                      followers |-> u, bio |-> <<"m", "l">>, name |-> "Ann",
                      location |-> CASE u = 1 -> "United States"
                                     [] u = 2 -> "Toronto, Canada"
                                     [] OTHER -> "Europe"]

\* The queries tried: an ordinary one, one that is an alias key of
\* create_location_df's replace, and one that read_csv reads as a missing
\* value.
Subjects == {"Deep learning", "Russia", "NA"}

\* The queries argument: a str (a sequence of characters), as the command line
\* passes it when --queries has no comma, or a list of queries.
StrQueries == { [type |-> "str", items |-> <<"M", "L">>] }
ListQueries ==
    { [type |-> "list", items |-> qs] :
        qs \in {s \in DistinctSeqs(Subjects) : s # <<>> /\ Len(s) < Cardinality(Subjects)} }

\* scrape_github(token, queries, sort, order, num): None for a str, and for a
\* list the dictionary query : (top_repos, user_data), with one user record
\* for each repository record.
scrape_github(qs, found) ==
    IF qs.type = "str"
    THEN [none |-> TRUE, data |-> <<>>]
    ELSE [none |-> FALSE,
          data |-> [q \in Range(qs.items) |->
                      [top_repos |-> [k \in 1..Len(found[q]) |->
                                         MainRepoRecord(found[q][k])],
                       user_data |-> [k \in 1..Len(found[q]) |->
                                         MainUserRecord(found[q][k])]]]]

\* The frame without the column: top_repos["subject"] = query left out.
without_subject(rows, query) == rows

\* top_repos["subject"] = query, user_data["subject"] = query.
with_subject(rows, query) ==
    [k \in 1..Len(rows) |-> SetColumn(rows[k], "subject", query)]

\* pd.concat of the frames of the queries, in the order of the queries.
RECURSIVE concat_frames(_, _, _)
concat_frames(qs, data, part) ==
    IF qs = <<>> THEN <<>>
    ELSE with_subject(data[Head(qs)][part], Head(qs))
            \o concat_frames(Tail(qs), data, part)

\* scrape_repos(token, usernames) for one iteration order of usernames: the
\* records of every repository of every owner.  The records have no subject.
RECURSIVE scrape_repos(_)
scrape_repos(order) ==
    IF order = <<>> THEN <<>>
    ELSE <<MainRepoRecord(Head(order))>> \o scrape_repos(Tail(order))

\* Line 335.
MainScrapeGithub ==
    /\ pc = "main_start"
    /\ github_data' = scrape_github(queries, search)
    /\ pc' = "main_frames"
    /\ UNCHANGED <<call, num, results, owner_repos, usernames, top_repos,
                   top_repos_none, user_data, all_repos, raised, i, j, ret,
                   search_remaining, core_remaining, slept, prev_call, last_call,
                   requests>>
    /\ UNCHANGED cleanerVars /\ UNCHANGED topVars /\ UNCHANGED mainVars
    /\ UNCHANGED <<locationVars, topicVars, chartVars, reportVars>>

\* Lines 338-349.  With github_data None the first github_data[query] raises
\* TypeError and main ends there.
MainBuildFrames ==
    /\ pc = "main_frames"
    /\ \/ /\ github_data.none
          /\ pc' = "main_crashed"
          /\ UNCHANGED <<top_repos_df, user_data_df>>
       \/ /\ ~github_data.none
          /\ top_repos_df' = concat_frames(queries.items, github_data.data, "top_repos")
          /\ user_data_df' = concat_frames(queries.items, github_data.data, "user_data")
          /\ pc' = "main_write"
    /\ UNCHANGED <<top_users, top_organizations>>
    /\ UNCHANGED collectorVars /\ UNCHANGED cleanerVars /\ UNCHANGED mainVars
    /\ UNCHANGED <<locationVars, topicVars, chartVars, reportVars>>

\* Lines 351-352.
MainWriteRawFiles ==
    /\ pc = "main_write"
    /\ files' = ("top-repos.csv" :> top_repos_df) @@ ("user-data.csv" :> user_data_df)
    /\ pc' = "main_dedup"
    /\ UNCHANGED <<queries, search, clean_files, report_top>>
    /\ UNCHANGED collectorVars /\ UNCHANGED cleanerVars /\ UNCHANGED topVars
    /\ UNCHANGED <<locationVars, topicVars, chartVars, reportVars>>

\* Lines 355-356.
MainDropDuplicates ==
    /\ pc = "main_dedup"
    /\ top_repos_df' = drop_duplicates(top_repos_df, "first")
    /\ user_data_df' = drop_duplicates(user_data_df, "first")
    /\ pc' = "main_top"
    /\ UNCHANGED <<top_users, top_organizations>>
    /\ UNCHANGED collectorVars /\ UNCHANGED cleanerVars /\ UNCHANGED mainVars
    /\ UNCHANGED <<locationVars, topicVars, chartVars, reportVars>>

\* Line 359.
MainGetTopUsersAndOrgs ==
    /\ pc = "main_top"
    /\ \E sorted \in sort_values(user_data_df, "followers") :
         top_users' = top_users_from(sorted)
    /\ \E sorted \in sort_values(groupby_username_sum(organization_rows(top_repos_df)),
                                 "stars") :
         top_organizations' = top_organizations_from(sorted)
    /\ pc' = "main_user_repos"
    /\ UNCHANGED <<user_data_df, top_repos_df>>
    /\ UNCHANGED collectorVars /\ UNCHANGED cleanerVars /\ UNCHANGED mainVars
    /\ UNCHANGED <<locationVars, topicVars, chartVars, reportVars>>

\* Lines 361-362.
MainScrapeUserRepos ==
    /\ pc = "main_user_repos"
    /\ \E order \in SetOrders(top_users) :
         files' = ("top-user-repos.csv" :> scrape_repos(order)) @@ files
    /\ pc' = "main_org_repos"
    /\ UNCHANGED <<queries, search, clean_files, report_top>>
    /\ UNCHANGED collectorVars /\ UNCHANGED cleanerVars /\ UNCHANGED topVars
    /\ UNCHANGED <<locationVars, topicVars, chartVars, reportVars>>

\* Lines 364-365.
MainScrapeOrgRepos ==
    /\ pc = "main_org_repos"
    /\ \E order \in SetOrders(top_organizations) :
         files' = ("top-org-repos.csv" :> scrape_repos(order)) @@ files
    /\ pc' = "main_done"
    /\ UNCHANGED <<queries, search, clean_files, report_top>>
    /\ UNCHANGED collectorVars /\ UNCHANGED cleanerVars /\ UNCHANGED topVars
    /\ UNCHANGED <<locationVars, topicVars, chartVars, reportVars>>

\* The strings pd.read_csv reads as a missing value (its default na_values).
na_values ==
    {"", "#N/A", "#N/A N/A", "#NA", "-1.#IND", "-1.#QNAN", "-NaN", "-nan", "1.#IND",
     "1.#QNAN", "<NA>", "N/A", "NA", "NULL", "NaN", "n/a", "nan", "null"}

\* pd.read_csv of a table that to_csv(index=False) wrote.  A cell of a column
\* of strings that holds one of na_values is read as missing; a missing cell
\* is written as the empty field and read as missing.  A description or a bio
\* is a sequence of characters: the texts tried that spell one of na_values
\* are the empty text, "NA" and "nan".  Numbers are read as they were written.
read_csv_table(table) ==
    [k \in 1..Len(table) |->
        [c \in DOMAIN table[k] |->
            CASE c \in {"id", "username", "stars", "followers"} -> table[k][c]
              [] c \in {"description", "bio"} ->
                   IF table[k][c] \in {<<>>, <<"N", "A">>, <<"n", "a", "n">>}
                   THEN NaN ELSE table[k][c]
              [] OTHER -> IF table[k][c] \in na_values THEN Null ELSE table[k][c]]]

\* One iteration of clean_data's loop (lines 116-129), on a file os.listdir
\* has not yielded yet; the order of os.listdir is arbitrary.  A file of a
\* table without rows has no "created" column, so read_csv(f,
\* parse_dates=["created"]) raises; clean_user_data and clean_repo_data raise
\* on a column without a string.  The files written by the iterations before
\* stay written.  After the user file comes the location file.
MainCleanData ==
    /\ pc \in {"main_done", "clean_loop"}
    /\ \E f \in DOMAIN files \ DOMAIN clean_files :
         LET df == read_csv_table(files[f])
         IN  IF \/ files[f] = <<>>
                \/ str_accessor_raises(df, IF f = "user-data.csv" THEN "bio"
                                           ELSE "description")
             THEN /\ pc' = "clean_crashed"
                  /\ UNCHANGED clean_files
             ELSE /\ clean_files' = (f :> IF f = "user-data.csv"
                                          THEN clean_user_data(df)
                                          ELSE clean_repo_data(df)) @@ clean_files
                  /\ pc' = IF f = "user-data.csv" THEN "clean_locate"
                           ELSE IF DOMAIN files \subseteq DOMAIN clean_files \cup {f}
                                THEN "clean_done" ELSE "clean_loop"
    /\ UNCHANGED <<queries, search, files, report_top>>
    /\ UNCHANGED collectorVars /\ UNCHANGED cleanerVars /\ UNCHANGED topVars
    /\ UNCHANGED <<locationVars, topicVars, chartVars, reportVars>>

\* Lines 124-125, in the iteration of the user file: create_location_df on the
\* cleaned user table, for every file the url can hold and every result the
\* lookups can have, and the write of user-location-data.csv.  When
\* create_location_df raises, clean_data ends with the files written so far.
MainCreateLocationDf ==
    /\ pc = "clean_locate"
    /\ LET rows == locations_to_geocode(clean_files["user-data.csv"])
       IN  \E csv \in ContinentCsvs :
           \E geo \in [1..Len(rows) ->
                          {NoLocation} \cup {Place(rows[k].location) : k \in 1..Len(rows)}] :
              /\ \A k \in 1..Len(rows) : geo[k] \in geocode(rows[k].location)
              /\ IF country_raises(dropna_geo_location(
                        [k \in 1..Len(rows) |-> SetColumn(rows[k], "geo-location", geo[k])]))
                 THEN /\ pc' = "clean_crashed"
                      /\ UNCHANGED clean_files
                 ELSE /\ clean_files' =
                            ("user-location-data.csv" :>
                                create_location_df(clean_files["user-data.csv"], csv, geo))
                            @@ clean_files
                      /\ pc' = IF DOMAIN files \subseteq DOMAIN clean_files
                               THEN "clean_done" ELSE "clean_loop"
    /\ UNCHANGED <<queries, search, files, report_top>>
    /\ UNCHANGED collectorVars /\ UNCHANGED cleanerVars /\ UNCHANGED topVars
    /\ UNCHANGED <<locationVars, topicVars, chartVars, reportVars>>

\* str.isascii() of a text.  A character outside ASCII is written here as the
\* name of its code point.
isascii(t) == \A k \in DOMAIN t : t[k] \notin {"U+6DF1", "U+5EA6"}

\* make_wordcloud: df[column].dropna(), then the texts with x.isascii(): the
\* words that are joined.
words(table, column) ==
    LET present == SelectSeq(table, LAMBDA row : row[column] # NaN)
        ascii == SelectSeq(present, LAMBDA row : isascii(row[column]))
    IN  [k \in 1..Len(ascii) |-> ascii[k][column]]

\* WordCloud(...).generate(words) raises ValueError when the joined text holds
\* no word it counts: when there is no text, or every text is empty or the
\* stopword "a".
generate_raises(ws) == \A k \in DOMAIN ws : ws[k] \in {<<>>, <<"a">>}

\* The Reporter's main up to most_followed_users_chart and org_star_chart:
\* get_worldclouds comes first and ends main when a word cloud has no word;
\* otherwise get_top_users_and_orgs(user_data, top_repos) is called on the
\* cleaned tables.
ReporterGetTopUsersAndOrgs ==
    /\ pc = "clean_done"
    /\ IF \/ generate_raises(words(clean_files["top-repos.csv"], "description"))
          \/ generate_raises(words(clean_files["user-data.csv"], "bio"))
       THEN /\ pc' = "report_crashed"
            /\ UNCHANGED report_top
       ELSE /\ \E sorted_users \in sort_values(clean_files["user-data.csv"], "followers") :
               \E sorted_orgs \in sort_values(groupby_username_sum(
                                     organization_rows(clean_files["top-repos.csv"])),
                                                "stars") :
                  report_top' = [top_users |-> top_users_from(sorted_users),
                                 top_organizations |-> top_organizations_from(sorted_orgs)]
            /\ pc' = "report_done"
    /\ UNCHANGED <<queries, search, files, clean_files>>
    /\ UNCHANGED collectorVars /\ UNCHANGED cleanerVars /\ UNCHANGED topVars
    /\ UNCHANGED <<locationVars, topicVars, chartVars, reportVars>>

\* What a query of a list can find: the repositories of some of the owners on
\* the platform (user 1, organizations 2 and 3, one repository each), at
\* least one.
FoundLists == {s \in DistinctSeqs(1..3) : Len(s) \in 1..MaxFound}

InitMain ==
    /\ pc = "main_start"
    /\ \/ /\ queries \in StrQueries
          /\ search = <<>>
       \/ /\ queries \in ListQueries
          /\ search \in [Range(queries.items) -> FoundLists]
    /\ files = <<>> /\ clean_files = <<>> /\ report_top = <<>>
    /\ CollectorIdle /\ CleanerIdle /\ TopIdle
    /\ LocationIdle /\ TopicIdle /\ ChartIdle /\ ReportIdle

NextMain ==
    \/ MainScrapeGithub \/ MainBuildFrames \/ MainWriteRawFiles
    \/ MainDropDuplicates \/ MainGetTopUsersAndOrgs \/ MainScrapeUserRepos
    \/ MainScrapeOrgRepos \/ MainCleanData \/ MainCreateLocationDf
    \/ ReporterGetTopUsersAndOrgs

SpecMain == InitMain /\ [][NextMain]_vars

----------------------------------------------------------------------------
(* Properties of main, clean_data and the Reporter's ranking *)

QueryFiles == {"top-repos.csv", "user-data.csv"}
OwnerFiles == {"top-user-repos.csv", "top-org-repos.csv"}

\* The row carries a subject, and it is a query that found the row's owner.
HasSubjectOfItsQuery(row) ==
    /\ "subject" \in DOMAIN row
    /\ row.subject \in Range(queries.items)
    /\ row.username \in Range(search[row.subject])

\* The raw file the rows of a cleaned file come from.
RawFileOf(f) == IF f = "user-location-data.csv" THEN "user-data.csv" ELSE f

\* The row of a cleaned file has the columns of the raw row it comes from (the
\* location file has more), subject included when the raw row has one, and
\* its subject is conv[s] for the subject s of the raw row.
SubjectFromRaw(f, row, conv) ==
    \E k \in 1..Len(files[RawFileOf(f)]) :
        LET raw_row == files[RawFileOf(f)][k]
        IN  /\ raw_row.id = row.id
            /\ IF f = RawFileOf(f) THEN DOMAIN row = DOMAIN raw_row
               ELSE DOMAIN raw_row \subseteq DOMAIN row
            /\ "subject" \in DOMAIN row <=> "subject" \in DOMAIN raw_row
            /\ "subject" \in DOMAIN row => row.subject = conv[raw_row.subject]

\* The subject the Cleaner writes for a subject of a raw file: missing for a
\* subject read_csv reads as missing, else the subject.
CleanedSubject == [s \in Subjects |-> IF s \in na_values THEN Null ELSE s]

\* The subject create_location_df writes: the cleaned one, an alias key
\* replaced by its value.
LocationSubject == [s \in Subjects |-> replace_cell(CleanedSubject[s])]

C16_SingleStringScraped ==
    queries.type = "str" =>
        /\ pc # "main_crashed"
        /\ pc # "main_start" =>
              (~github_data.none /\ DOMAIN github_data.data = {queries.items})

\* C19: the top users and the top organizations the Reporter computes from
\* the cleaned tables are those main computed and scraped the repositories of.
C19_ReporterRanksScrapedOwners ==
    pc = "report_done" =>
        /\ report_top.top_users = top_users
        /\ report_top.top_organizations = top_organizations

----------------------------------------------------------------------------
(* The Reporter (data_visualization.py): main's five chart groups on the    *)
(* frames get_data loads.  A frame is an object: the heap maps a reference  *)
(* to the table the object holds, an operation that returns a new frame     *)
(* adds an object, and an item assignment changes the object it is applied  *)
(* to.  The data of a chart is the table of the frame the chart is built    *)
(* on, as it is when the group saves the chart.                             *)

MaxReportRows == 2      \* rows of the cleaned top-repos table

TopTopics == 10         \* yearly_topics_chart: ".head(10)"
TopOrgLanguages == 5    \* org_lang_charts: "value_counts().head(5)"

ReportFiles == <<"top-repos.csv", "user-data.csv", "user-location-data.csv",
                 "top-user-repos.csv", "top-org-repos.csv">>

\* The references of the frames get_data returns, by the names main gives them.
frames == [top_repos |-> 1, user_data |-> 2, location_df |-> 3,
           top_user_repos |-> 4, top_org_repos |-> 5]

\* get_data: one frame for each file, holding the table read from it.
get_data(dir) == [k \in 1..Len(ReportFiles) |-> dir[ReportFiles[k]]]

\* DataFrame.set_index(column) without inplace: a new frame with the same rows.
set_index(h, r, column) == new_frame(h, h[r])

\* frame[column] = values, one value for each row: the object the reference
\* names is changed.
setitem(h, r, column, values) ==
    [h EXCEPT ![r] = [k \in 1..Len(h[r]) |-> SetColumn(h[r][k], column, values[k])]]

\* get_worldclouds: the word cloud of the descriptions, then that of the bios.
\* The data holds the word clouds saved: make_wordcloud raises before it saves
\* when generate raises, and the second is not reached when the first raises.
get_worldclouds(h) ==
    LET description == words(h[frames.top_repos], "description")
        bio == words(h[frames.user_data], "bio")
        saved == IF generate_raises(description) THEN {}
                 ELSE IF generate_raises(bio) THEN {"repo_description"}
                 ELSE {"repo_description", "user_bio"}
    IN  { [heap |-> h,
           data |-> [c \in saved |-> IF c = "repo_description" THEN description
                                     ELSE bio]] }

\* top_10_lang_stars_chart on the frame r: the frame language_summary, whose
\* language column is assigned twice, and the grouped data.
language_summary(h, r) ==
    LET a == copy(h, r)
        h1 == setitem(a.heap, a.ref, "language",
                      [k \in 1..Len(h[r]) |-> replace_language(h[r][k].language)])
        tops == top_index_sets(
                    value_counts([k \in 1..Len(h1[a.ref]) |-> h1[a.ref][k].language]),
                    TopLanguages)
    IN  { [heap |-> setitem(h1, a.ref, "language",
                            [k \in 1..Len(h1[a.ref]) |->
                                map_other(h1[a.ref][k].language, top_languages)]),
           ref |-> a.ref] : top_languages \in tops }

\* star_distribution_chart: stars_df, a copy of two columns with a third added.
star_distribution_chart(h, r) ==
    LET a == new_frame(h, [k \in 1..Len(h[r]) |->
                              [stars |-> h[r][k].stars, subject |-> h[r][k].subject]])
    IN  [heap |-> setitem(a.heap, a.ref, "log stars",
                          [k \in 1..Len(h[r]) |-> [ln |-> h[r][k].stars]]),
         ref |-> a.ref]

\* get_combined_star_chart.
get_combined_star_chart(h) ==
    { LET s == star_distribution_chart(l.heap, frames.top_repos)
      IN  [heap |-> s.heap,
           data |-> [top_10_repos |-> top_10_repos_chart(s.heap[frames.top_repos]),
                     top_10_languages |-> groupby_subject_language_sum(s.heap[l.ref]),
                     star_distribution |-> s.heap[s.ref]]] :
        l \in language_summary(h, frames.top_repos) }

\* get_datetime_df: a frame indexed by "created", with the column "year" added.
get_datetime_df(h, r) ==
    LET a == set_index(h, r, "created")
    IN  [heap |-> setitem(a.heap, a.ref, "year",
                          [k \in 1..Len(h[r]) |-> h[r][k].created]),
         ref |-> a.ref]

\* explode("topics").dropna(subset=["topics"]) on a table.
RECURSIVE explode_topics(_)
explode_topics(table) ==
    IF table = <<>> THEN <<>>
    ELSE LET entries == explode_dropna(Head(table).topics)
         IN  [k \in 1..Len(entries) |-> [Head(table) EXCEPT !.topics = entries[k]]]
                \o explode_topics(Tail(table))

\* yearly_topics_chart: the rows of the most frequent topics.
yearly_topics_chart(h, r) ==
    LET d == get_datetime_df(h, r)
        topics_df == explode_topics(d.heap[d.ref])
        tops == top_index_sets(
                    value_counts([k \in 1..Len(topics_df) |-> topics_df[k].topics]),
                    TopTopics)
    IN  { [heap |-> d.heap,
           data |-> SelectSeq(topics_df, LAMBDA row : row.topics \in top_10_topics)] :
            top_10_topics \in tops }

\* get_combined_yearly_chart.
get_combined_yearly_chart(h) ==
    LET d1 == get_datetime_df(h, frames.top_repos)
        d2 == get_datetime_df(d1.heap, frames.top_repos)
    IN  { [heap |-> t.heap,
           data |-> [yearly_repos |-> t.heap[d1.ref],
                     yearly_median_stars |-> t.heap[d2.ref],
                     yearly_topics |-> t.data]] :
            t \in yearly_topics_chart(d2.heap, frames.top_repos) }

\* top_user_repos.drop("id", axis=1).groupby("username").agg(...) with
\* reset_index, for either owner file: a new frame with one row per username.
\* Of the aggregates the sum of the stars is kept here.
owner_summary(h, r) == new_frame(h, groupby_username_sum(h[r]))

\* left.merge(summary, on="username"): the rows of left whose username has a
\* summary row, with its sum.
merge_summary(left, summary) ==
    LET matched == SelectSeq(left, LAMBDA row :
                       \E m \in 1..Len(summary) : summary[m].username = row.username)
    IN  [k \in 1..Len(matched) |->
            SetColumn(matched[k], "stars-sum",
                      (CHOOSE s \in Range(summary) : s.username = matched[k].username).stars)]

\* pd.merge(left=top_user_stats_df, right=location_df): no "on", so an inner
\* join on every column the two frames share, a missing value matching a
\* missing value.  Each row of left is joined with each location row that has
\* the same cell in every shared column, and gets its other columns.
RECURSIVE merge_location(_, _)
merge_location(left, locations) ==
    IF left = <<>> THEN <<>>
    ELSE LET row == Head(left)
             matches == SelectSeq(locations, LAMBDA l :
                            \A c \in DOMAIN row \cap DOMAIN l : row[c] = l[c])
         IN  [m \in 1..Len(matches) |->
                 [c \in DOMAIN row \cup DOMAIN matches[m] |->
                     IF c \in DOMAIN row THEN row[c] ELSE matches[m][c]]]
             \o merge_location(Tail(left), locations)

\* most_followed_users_chart.
most_followed_users_chart(h) ==
    { LET users == top_users_from(sorted)
          s == owner_summary(h, frames.top_user_repos)
          top_user_stats_df ==
              merge_summary(SelectSeq(h[frames.user_data],
                                      LAMBDA row : row.username \in users),
                            s.heap[s.ref])
      IN  [heap |-> s.heap,
           data |-> merge_location(top_user_stats_df, s.heap[frames.location_df])] :
        sorted \in sort_values(h[frames.user_data], "followers") }

\* get_combined_user_chart: user_map_chart is built on location_df itself.
get_combined_user_chart(h) ==
    { [heap |-> m.heap,
       data |-> [user_map |-> m.heap[frames.location_df],
                 most_followed_users |-> m.data]] :
        m \in most_followed_users_chart(h) }

\* org_star_chart.
org_star_chart(h) ==
    { LET orgs == top_organizations_from(sorted)
          s == owner_summary(h, frames.top_org_repos)
      IN  [heap |-> s.heap,
           data |-> merge_summary(SelectSeq(s.heap[frames.user_data],
                                            LAMBDA row : row.username \in orgs),
                                  s.heap[s.ref])] :
        sorted \in sort_values(
                      groupby_username_sum(organization_rows(h[frames.top_repos])),
                      "stars") }

\* org_lang_charts: the first chart is built on the filtered frame, the second
\* on a query of the frame indexed by "created" with the column "year" added.
org_lang_charts(h) ==
    LET q == new_frame(h, SelectSeq(h[frames.top_org_repos], LAMBDA row :
                              row.language # Null /\ row.language # "Jupyter Notebook"))
        s == set_index(q.heap, q.ref, "created")
        h2 == setitem(s.heap, s.ref, "year",
                      [k \in 1..Len(s.heap[s.ref]) |-> s.heap[s.ref][k].created])
        tops == top_index_sets(
                    value_counts([k \in 1..Len(h2[s.ref]) |-> h2[s.ref][k].language]),
                    TopOrgLanguages)
    IN  { [heap |-> h2,
           data |-> [org_lang_count |-> h2[q.ref],
                     org_lang_year |-> SelectSeq(h2[s.ref], LAMBDA row :
                                          row.language \in top_5_languages)]] :
            top_5_languages \in tops }

\* get_combined_org_chart.
get_combined_org_chart(h) ==
    UNION { { [heap |-> l.heap,
               data |-> [org_star |-> o.data, org_lang |-> l.data]] :
                l \in org_lang_charts(o.heap) } :
            o \in org_star_chart(h) }

\* The chart groups, in the order main calls them.
ChartGroups == <<"wordclouds", "star", "yearly", "user", "org">>

\* What a chart group can do to a heap: the heap it leaves and the data of
\* the charts it saves.
group_outcomes(g, h) ==
    CASE g = "wordclouds" -> get_worldclouds(h)
      [] g = "star" -> get_combined_star_chart(h)
      [] g = "yearly" -> get_combined_yearly_chart(h)
      [] g = "user" -> get_combined_user_chart(h)
      [] g = "org" -> get_combined_org_chart(h)

\* main: get_data.
ReportGetData ==
    /\ pc = "rep_start"
    /\ heap' = get_data(clean_files)
    /\ pc' = "rep_charts"
    /\ UNCHANGED <<charts, mainVars>>
    /\ UNCHANGED collectorVars /\ UNCHANGED cleanerVars /\ UNCHANGED topVars
    /\ UNCHANGED <<locationVars, topicVars, chartVars>>

\* The next chart group of main runs and returns: its charts are saved, and
\* the frames it made are no longer referenced.  get_worldclouds ends main
\* when it raises, with the word clouds it saved before.
RunGroup(g) ==
    /\ pc = "rep_charts"
    /\ Cardinality(DOMAIN charts) < Len(ChartGroups)
    /\ g = ChartGroups[Cardinality(DOMAIN charts) + 1]
    /\ \E o \in group_outcomes(g, heap) :
          /\ heap' = SubSeq(o.heap, 1, Len(ReportFiles))
          /\ charts' = IF DOMAIN o.data = {} THEN charts ELSE (g :> o.data) @@ charts
          /\ pc' = IF g = "wordclouds" /\ DOMAIN o.data # {"repo_description", "user_bio"}
                   THEN "rep_crashed" ELSE pc
    /\ UNCHANGED mainVars
    /\ UNCHANGED collectorVars /\ UNCHANGED cleanerVars /\ UNCHANGED topVars
    /\ UNCHANGED <<locationVars, topicVars, chartVars>>

ReportWordclouds == RunGroup("wordclouds")
ReportStarChart == RunGroup("star")
ReportYearlyChart == RunGroup("yearly")
ReportUserChart == RunGroup("user")
ReportOrgChart == RunGroup("org")

\* The rows of the cleaned top-repos table that are tried.
ReportRepoRows(k) ==
    { [id |-> k, username |-> k, type |-> TypeOfOwner(k), stars |-> k,
       subject |-> "Deep learning",
       description |-> IF k = 2 THEN <<"U+6DF1", "U+5EA6">> ELSE <<"m", "l">>,
       language |-> l, created |-> y, topics |-> t] :
        l \in {Null, "Python"}, y \in {2019, 2020},
        t \in {NaNValue, StrValue(str_list(<< <<"a">> >>))} }

ReportRepoTables ==
    UNION { { t \in [1..n -> UNION {ReportRepoRows(k) : k \in 1..n}] :
                \A k \in 1..n : t[k].id = k } : n \in 0..MaxReportRows }

\* The cleaned user table the Reporter reads: two users and an organization.
ReportUserRows ==
    << [id |-> 1, username |-> 1, type |-> "User", followers |-> 5,
        subject |-> "Deep learning", created |-> 2010, bio |-> <<"m", "l">>,
        name |-> "Ann", location |-> "Toronto, Canada"],
       [id |-> 2, username |-> 2, type |-> "Organization", followers |-> 3,
        subject |-> "Deep learning", created |-> 2012, bio |-> NaN,
        name |-> "Ann", location |-> Null],
       [id |-> 3, username |-> 3, type |-> "User", followers |-> 4,
        subject |-> "Deep learning", created |-> 2011, bio |-> <<"U+6DF1">>,
        name |-> "Ann", location |-> "United States"] >>

\* The cleaned files the Reporter reads.  The location file is the one
\* create_location_df gives for the user table, for either file the url can
\* hold, when every lookup finds its place; the geo-location, a text in the
\* file, is in no other frame.
ReportDirs ==
    { [f \in Range(ReportFiles) |->
        CASE f = "top-repos.csv" -> t
          [] f = "user-data.csv" -> ReportUserRows
          [] f = "user-location-data.csv" ->
               create_location_df(ReportUserRows, csv,
                   [k \in 1..Len(locations_to_geocode(ReportUserRows)) |->
                       Place(locations_to_geocode(ReportUserRows)[k].location)])
          [] f = "top-user-repos.csv" ->
               << [id |-> 21, username |-> 1, stars |-> 4, language |-> "Python",
                   created |-> 2019],
                  [id |-> 24, username |-> 3, stars |-> 6, language |-> "Python",
                   created |-> 2020] >>
          [] OTHER ->
               << [id |-> 22, username |-> 2, stars |-> 2, language |-> "Python",
                   created |-> 2018],
                  [id |-> 23, username |-> 2, stars |-> 1, language |-> Null,
                   created |-> 2019] >>] :
        t \in ReportRepoTables, csv \in ContinentCsvs }

InitReport ==
    /\ pc = "rep_start"
    /\ clean_files \in ReportDirs
    /\ queries = <<>> /\ search = <<>> /\ files = <<>> /\ report_top = <<>>
    /\ heap = <<>> /\ charts = <<>>
    /\ CollectorIdle /\ CleanerIdle /\ TopIdle
    /\ LocationIdle /\ TopicIdle /\ ChartIdle

NextReport ==
    \/ ReportGetData \/ ReportWordclouds \/ ReportStarChart \/ ReportYearlyChart
    \/ ReportUserChart \/ ReportOrgChart

SpecReport == InitReport /\ [][NextReport]_vars

----------------------------------------------------------------------------
(* Properties of the Reporter *)

\* C17: every chart group leaves the frames get_data loaded as they were
\* read, and the data of the charts a group saves is the data it saves when
\* it is the first to run, whichever groups ran before it.
C17_ChartsLeaveTablesUnchanged ==
    pc \in {"rep_charts", "rep_crashed"} =>
        /\ heap = get_data(clean_files)
        /\ \A g \in DOMAIN charts :
              LET first == {o.data : o \in group_outcomes(g, get_data(clean_files))}
              IN  charts[g] \in first /\ Cardinality(first) = 1

\* All five groups have run on tables with a missing language, a description
\* outside ASCII that the word cloud leaves out, and a user the join with the
\* location frame leaves out.
C17_Witness ==
    /\ pc = "rep_charts"
    /\ DOMAIN charts = Range(ChartGroups)
    /\ Len(heap[frames.top_repos]) = MaxReportRows
    /\ Len(charts["wordclouds"].repo_description) < MaxReportRows
    /\ Len(charts["user"].most_followed_users) = 1
    /\ \E k \in 1..Len(heap[frames.top_repos]) : heap[frames.top_repos][k].language = Null

====
